---- MODULE Spec2Model ----
(***************************************************************************)
(* Smippo mirror engine: the Crawler (src/src/link-extractor.js, second    *)
(* half), its Filter, RobotsHandler, ResourceSaver and manifest, as a      *)
(* state machine.  One JavaScript event loop runs start() (task 0) and up  *)
(* to `concurrency` p-queue jobs (tasks 1..n); a task runs without         *)
(* interruption until it waits for I/O, so every action below is the code  *)
(* a task runs between two such waits.                                     *)
(*                                                                         *)
(* Strings are token sequences: a host is its dot-separated labels, a path *)
(* is the sequence of its `/`-separated segments, a segment is its         *)
(* dot-separated labels (<<"s","css">> is "s.css", <<"">> is the empty     *)
(* segment that follows a trailing slash), a query is a sequence of        *)
(* <<name, value>> pairs.  Local paths, URL map keys and what the path    *)
(* functions work on are strings, taken character by character.            *)
(*                                                                         *)
(* Spec is the crawler, SpecLive the crawler under a fair event loop.      *)
(* SpecSaver runs the ResourceSaver and the link rewriter page after page, *)
(* SpecFilter runs Filter.shouldFollow, SpecUrl runs normalizeUrl,         *)
(* SpecClassify runs isLikelyPage and isAsset, SpecCapture runs one job    *)
(* and its tab, SpecExtract runs extractLinks, SpecLogger runs a Logger    *)
(* with a log file, SpecContinue runs a capture and its `continue`,        *)
(* SpecServe runs the request handler of the static server; in these the   *)
(* crawler stays as constructed and `probe` holds the arguments and the    *)
(* results.                                                                *)
(***************************************************************************)
EXTENDS Integers, Sequences, FiniteSets, TLC

\* ------------------------------------------------------------------------
\* Bounds of the model
\* ------------------------------------------------------------------------
MaxDepth == 3
MaxWorkers == 2

\* ------------------------------------------------------------------------
\* src/src/utils/url.js
\* ------------------------------------------------------------------------
Url(protocol, hostname, port, pathname, search) ==
  [protocol |-> protocol, hostname |-> hostname, port |-> port,
   pathname |-> pathname, search |-> search]

\* the value `new URL(x)` throws on
BadUrl == Url("", <<>>, "", <<>>, <<>>)

Parses(u) == u.protocol \in {"http:", "https:"}

Last(s) == s[Len(s)]
Front(s) == SubSeq(s, 1, Len(s) - 1)

\* code-unit order of the parameter names used by the sites below
ParamOrder == <<"a", "b">>
Rank(name) == CHOOSE i \in 1..Len(ParamOrder) : ParamOrder[i] = name

RECURSIVE InsertParam(_, _)
InsertParam(p, s) ==
  IF s = <<>> THEN <<p>>
  ELSE IF Rank(Head(s)[1]) > Rank(p[1]) THEN <<p>> \o s
  ELSE <<Head(s)>> \o InsertParam(p, Tail(s))

\* URLSearchParams.sort(): stable, by name
RECURSIVE SortParams(_)
SortParams(q) ==
  IF q = <<>> THEN <<>> ELSE InsertParam(Last(q), SortParams(Front(q)))

StripSlash(u) ==
  IF u.pathname # << <<"">> >> /\ Last(u.pathname) = <<"">>
  THEN Front(u.pathname) ELSE u.pathname

StripPort(u) ==
  IF (u.protocol = "http:" /\ u.port = "80")
     \/ (u.protocol = "https:" /\ u.port = "443")
  THEN "" ELSE u.port

normalizeUrl(u) ==
  IF ~Parses(u) THEN u
  ELSE [u EXCEPT !.pathname = StripSlash(u), !.port = StripPort(u),
                 !.search = SortParams(u.search)]

\* URL.origin
Origin(u) == <<u.protocol, u.hostname, StripPort(u)>>

isSameOrigin(u1, u2) == Parses(u1) /\ Parses(u2) /\ Origin(u1) = Origin(u2)

LastN(s, n) == SubSeq(s, IF Len(s) > n THEN Len(s) - n + 1 ELSE 1, Len(s))

specialTlds == {<<"co", "uk">>, <<"com", "au">>, <<"co", "nz">>, <<"org", "uk">>}

getRootDomainNoSpecial(hostname) == LastN(hostname, 2)

getRootDomain(hostname) ==
  IF LastN(hostname, 2) \in specialTlds THEN LastN(hostname, 3)
  ELSE LastN(hostname, 2)

isSameDomain(u1, u2) ==
  Parses(u1) /\ Parses(u2)
  /\ getRootDomain(u1.hostname) = getRootDomain(u2.hostname)

getTld(hostname) == Last(hostname)

isSameTld(u1, u2) ==
  Parses(u1) /\ Parses(u2) /\ getTld(u1.hostname) = getTld(u2.hostname)

\* basePath is the base's pathname up to and including its last `/`
isInDirectory(u, base) ==
  /\ Parses(u) /\ Parses(base)
  /\ Origin(u) = Origin(base)
  /\ LET dir == Front(base.pathname)
     IN Len(u.pathname) > Len(dir) /\ SubSeq(u.pathname, 1, Len(dir)) = dir

isInScope(u, base, scope, stayInDir) ==
  IF stayInDir /\ ~isInDirectory(u, base) THEN FALSE
  ELSE CASE scope = "subdomain" -> isSameOrigin(u, base)
         [] scope = "domain" -> isSameDomain(u, base)
         [] scope = "tld" -> isSameTld(u, base)
         [] scope = "all" -> TRUE
         [] OTHER -> isSameDomain(u, base)

assetExtensions ==
  {"css", "js", "json", "xml", "png", "jpg", "jpeg", "gif", "webp", "svg",
   "ico", "bmp", "woff", "woff2", "ttf", "eot", "otf", "mp3", "mp4", "webm",
   "ogg", "wav", "pdf", "zip", "tar", "gz", "map"}

\* ------------------------------------------------------------------------
\* src/src/utils/url.js, the text of a URL and its local path
\* ------------------------------------------------------------------------
\* parts[lo] .. parts[hi] put together, by halves
RECURSIVE Concat(_, _, _)
Concat(parts, lo, hi) ==
  IF lo > hi THEN ""
  ELSE IF lo = hi THEN parts[lo]
  ELSE LET mid == (lo + hi) \div 2
       IN Concat(parts, lo, mid) \o Concat(parts, mid + 1, hi)

Join(parts, sep) ==
  Concat([i \in 1..Len(parts) |-> IF i = 1 THEN parts[i] ELSE sep \o parts[i]],
         1, Len(parts))

Char(s, i) == SubSeq(s, i, i)

\* the pieces, one for each position of a string, put together
Pieces(parts) == Concat(parts, 1, Len(parts))

\* String.prototype.slice(a, b) with 0 <= a, on 1-based positions a+1..b
Slice(s, a, b) == SubSeq(s, a + 1, IF b < Len(s) THEN b ELSE Len(s))

EndsWith(s, suffix) ==
  Len(s) >= Len(suffix) /\ SubSeq(s, Len(s) - Len(suffix) + 1, Len(s)) = suffix

\* the last position of character c in s, 0 when there is none
LastIndexOf(s, c) ==
  LET at == {i \in 1..Len(s) : Char(s, i) = c}
  IN IF at = {} THEN 0 ELSE CHOOSE i \in at : \A j \in at : j <= i

\* the getters of a parsed URL
hostnameOf(u) == Join(u.hostname, ".")

pathnameOf(u) ==
  "/" \o Join([i \in 1..Len(u.pathname) |-> Join(u.pathname[i], ".")], "/")

searchOf(u) ==
  IF u.search = <<>> THEN ""
  ELSE "?" \o Join([i \in 1..Len(u.search) |->
                      u.search[i][1] \o "=" \o u.search[i][2]], "&")

\* URL.href; the parser drops the default port of the scheme
hrefOf(u) ==
  u.protocol \o "//" \o hostnameOf(u)
    \o (IF StripPort(u) = "" THEN "" ELSE ":" \o StripPort(u))
    \o pathnameOf(u) \o searchOf(u)

\* String.prototype.toLowerCase on the characters of a URL
UpperCase == "ABCDEFGHIJKLMNOPQRSTUVWXYZ"
LowerCase == "abcdefghijklmnopqrstuvwxyz"

toLowerCase(s) ==
  LET lower(c) ==
        IF \E i \in 1..26 : Char(UpperCase, i) = c
        THEN Char(LowerCase, CHOOSE i \in 1..26 : Char(UpperCase, i) = c)
        ELSE c
  IN Pieces([i \in 1..Len(s) |-> lower(Char(s, i))])

\* the same without .toLowerCase()
isLikelyPageAsWritten(u) ==
  IF ~Parses(u) THEN TRUE
  ELSE ~\E ext \in assetExtensions : EndsWith(pathnameOf(u), "." \o ext)

isLikelyPage(u) ==
  IF ~Parses(u) THEN TRUE
  ELSE ~\E ext \in assetExtensions :
          EndsWith(toLowerCase(pathnameOf(u)), "." \o ext)

isAsset(u) == ~isLikelyPage(u)

\* charCodeAt, for the characters query strings are made of here
charCode(c) ==
  CASE c = "?" -> 63 [] c = "=" -> 61 [] c = "&" -> 38
    [] c = "1" -> 49 [] c = "2" -> 50 [] c = "a" -> 97 [] c = "b" -> 98
    [] c = "v" -> 118

\* half of a 32-bit integer, which is <<high half, low half>>
Half == 65536

\* hash = ((hash << 5) - hash) + char; hash = hash & hash, for each character
RECURSIVE hashOf(_, _)
hashOf(h, str) ==
  IF str = "" THEN h
  ELSE LET lo == h[2] * 31 + charCode(Head(str))
           hi == h[1] * 31 + (lo \div Half)
       IN hashOf(<<hi % Half, lo % Half>>, Tail(str))

\* Math.abs(hash).toString(16).slice(0, 8)
simpleHash(str) ==
  LET \* Math.abs(hash) of the two halves
      absOf(h) ==
        IF h[1] < Half \div 2 THEN h
        ELSE IF h[2] = 0 THEN <<Half - h[1], 0>>
        ELSE <<Half - 1 - h[1], Half - h[2]>>
      hexDigit(d) == Char("0123456789abcdef", d + 1)
      hex4(n) == hexDigit(n \div 4096) \o hexDigit((n \div 256) % 16)
                   \o hexDigit((n \div 16) % 16) \o hexDigit(n % 16)
      \* the eight hexadecimal digits of the two halves
      hexDigits(h) == hex4(h[1]) \o hex4(h[2])
      \* .toString(16) writes no leading zero, and writes "0" for zero
      withoutLeadingZeros(digits) ==
        SubSeq(digits,
               1 + (CHOOSE n \in 0..7 :
                      /\ \A i \in 1..n : Char(digits, i) = "0"
                      /\ n = 7 \/ Char(digits, n + 1) # "0"),
               8)
  IN Slice(withoutLeadingZeros(hexDigits(absOf(hashOf(<<0, 0>>, str)))), 0, 8)

Alnum ==
  {"a", "b", "c", "d", "e", "f", "g", "h", "i", "j", "k", "l", "m", "n", "o",
   "p", "q", "r", "s", "t", "u", "v", "w", "x", "y", "z",
   "0", "1", "2", "3", "4", "5", "6", "7", "8", "9"}

\* /\.[a-z0-9]+$/i
hasExtension(s) ==
  LET dot == LastIndexOf(s, ".")
  IN dot > 0 /\ dot < Len(s)
     /\ \A j \in (dot + 1)..Len(s) : Char(s, j) \in Alnum

\* pathname.match(/\.[^.]+$/)?.[0] || ''
extOf(s) ==
  LET dot == LastIndexOf(s, ".")
  IN IF dot > 0 /\ dot < Len(s) THEN SubSeq(s, dot, Len(s)) ELSE ""

StartsWith(s, prefix) ==
  Len(s) >= Len(prefix) /\ SubSeq(s, 1, Len(prefix)) = prefix

urlToPath(u, structure) ==
  LET \* the root path, then a directory path, get index.html
      withIndex(pathname) ==
        IF pathname = "/" THEN "/index.html"
        ELSE IF EndsWith(pathname, "/") THEN pathname \o "index.html"
        ELSE pathname
      \* a path with no extension gets .html
      withExtension(pathname) ==
        IF hasExtension(pathname) THEN pathname ELSE pathname \o ".html"
      \* pathname.slice(0, -ext.length || undefined)
      baseOf(s) == Slice(s, 0, Len(s) - Len(extOf(s)))
      \* a query string puts its hash before the extension
      withQueryHash(pathname, search) ==
        IF search # ""
        THEN baseOf(pathname) \o "-" \o simpleHash(search) \o extOf(pathname)
        ELSE pathname
      \* .replace(/\//g, '-')
      dashed(s) ==
        Pieces([i \in 1..Len(s) |->
                  IF Char(s, i) = "/" THEN "-" ELSE Char(s, i)])
      \* .replace(/^-/, '') and .replace(/^www\./, '')
      dropPrefix(s, prefix) ==
        IF StartsWith(s, prefix) THEN SubSeq(s, Len(prefix) + 1, Len(s))
        ELSE s
      \* switch (structure)
      structured(hostname, pathname) ==
        CASE structure = "flat" -> dropPrefix(dashed(pathname), "-")
          [] structure = "domain" -> hostname \o pathname
          [] OTHER -> dropPrefix(hostname, "www.") \o pathname
  IN IF ~Parses(u) THEN "unknown/index.html"
     ELSE structured(hostnameOf(u),
                     withQueryHash(withExtension(withIndex(pathnameOf(u))),
                                   searchOf(u)))

\* ------------------------------------------------------------------------
\* src/utils/path.js
\* ------------------------------------------------------------------------
InvalidChars == {"<", ">", ":", "\"", "|", "?", "*"}

\* how many dots end at position i of s, i included
RECURSIVE dotsBefore(_, _)
dotsBefore(s, i) ==
  IF i = 0 \/ Char(s, i) # "." THEN 0 ELSE 1 + dotsBefore(s, i - 1)

MaxPathLength == 200

sanitizePath(str) ==
  LET \* .replace(/[<>:"|?*]/g, '_')
      replaceInvalid(s) ==
        Pieces([i \in 1..Len(s) |->
                  IF Char(s, i) \in InvalidChars THEN "_" ELSE Char(s, i)])
      \* .replace(/\.\./g, '_'): the dots of a run pair up from its left
      replaceDotDot(s) ==
        Pieces([i \in 1..Len(s) |->
                  IF Char(s, i) # "." THEN Char(s, i)
                  ELSE IF dotsBefore(s, i) % 2 = 0 THEN "_"
                  ELSE IF i < Len(s) /\ Char(s, i + 1) = "." THEN ""
                  ELSE "."])
      \* .replace(/\/+/g, '/')
      collapseSlashes(s) ==
        Pieces([i \in 1..Len(s) |->
                  IF i > 1 /\ Char(s, i) = "/" /\ Char(s, i - 1) = "/"
                  THEN "" ELSE Char(s, i)])
  IN Slice(collapseSlashes(replaceDotDot(replaceInvalid(str))),
           0, MaxPathLength)

\* ------------------------------------------------------------------------
\* src/src/filter.js
\* ------------------------------------------------------------------------
\* the URL string split at runs of `/`, each part tokenized
RECURSIVE SearchTokens(_)
SearchTokens(q) ==
  IF q = <<>> THEN <<>>
  ELSE <<Head(q)[1], "=", Head(q)[2]>>
       \o (IF Tail(q) = <<>> THEN <<>> ELSE <<"&">> \o SearchTokens(Tail(q)))

UrlParts(u) ==
  LET host == u.hostname \o (IF u.port = "" THEN <<>> ELSE <<":", u.port>>)
      qs == IF u.search = <<>> THEN <<>> ELSE <<"?">> \o SearchTokens(u.search)
      n == Len(u.pathname)
  IN << <<u.protocol>>, host >>
     \o [i \in 1..n |-> IF i = n THEN u.pathname[i] \o qs ELSE u.pathname[i]]

STAR == <<"*">>
GLOBSTAR == <<"**">>

\* the tokens of one path part against those of one pattern part, where
\* a `*` stands for any run of tokens within the part
RECURSIVE globMatch(_, _)
globMatch(pat, part) ==
  IF pat = <<>> THEN part = <<>>
  ELSE IF Head(pat) = "*"
       THEN globMatch(Tail(pat), part)
            \/ (part # <<>> /\ globMatch(pat, Tail(part)))
  ELSE part # <<>> /\ Head(part) = Head(pat)
       /\ globMatch(Tail(pat), Tail(part))

\* one path part against one pattern part: a pattern part that starts with
\* `*` matches no empty part
partMatch(pat, part) ==
  /\ Head(pat) = "*" => part # <<"">>
  /\ globMatch(pat, IF part = <<"">> THEN <<>> ELSE part)

\* minimatch(url, glob, {nocase: true}), part by part; tokens are lower case
RECURSIVE matchOne(_, _)
matchOne(file, pattern) ==
  IF pattern = <<>> THEN file = <<>> \/ file = << <<"">> >>
  ELSE IF Head(pattern) = GLOBSTAR
       THEN matchOne(file, Tail(pattern))
            \/ (file # <<>> /\ matchOne(Tail(file), pattern))
  ELSE file # <<>> /\ partMatch(Head(pattern), Head(file))
       /\ matchOne(Tail(file), Tail(pattern))

\* a pattern without `*` gets one appended, to its last part
toGlobPattern(pattern) ==
  IF \E i \in 1..Len(pattern) :
        \E j \in 1..Len(pattern[i]) : pattern[i][j] \in {"*", "**"}
  THEN pattern
  ELSE [pattern EXCEPT ![Len(pattern)] =
                         IF @ = <<"">> THEN STAR ELSE @ \o <<"*">>]

matchesPattern(u, patterns) ==
  \E i \in 1..Len(patterns) : matchOne(UrlParts(u), toGlobPattern(patterns[i]))

shouldFollowIncludeFirst(f, u) ==
  /\ isInScope(u, f.baseUrl, f.scope, f.stayInDir)
  /\ IF Len(f.include) > 0 THEN matchesPattern(u, f.include)
     ELSE ~(Len(f.exclude) > 0 /\ matchesPattern(u, f.exclude))

shouldFollow(f, u) ==
  /\ isInScope(u, f.baseUrl, f.scope, f.stayInDir)
  /\ ~(Len(f.exclude) > 0 /\ matchesPattern(u, f.exclude))
  /\ ~(Len(f.include) > 0 /\ ~matchesPattern(u, f.include))

shouldDownloadAsset(f, u) ==
  IF f.externalAssets
  THEN ~(Len(f.exclude) > 0 /\ matchesPattern(u, f.exclude))
  ELSE shouldFollow(f, u)

\* a content type is <<type, subtype>>, <<>> when the header is missing;
\* a mime pattern is <<type, "*">> or <<type, subtype>>
matchesMime(mimeType, patterns) ==
  \E i \in 1..Len(patterns) :
     IF patterns[i][2] = "*" THEN mimeType # <<>> /\ mimeType[1] = patterns[i][1]
     ELSE mimeType = patterns[i]

shouldSaveByMime(f, contentType) ==
  IF contentType = <<>> THEN TRUE
  ELSE /\ ~(Len(f.mimeExclude) > 0 /\ matchesMime(contentType, f.mimeExclude))
       /\ ~(Len(f.mimeInclude) > 0 /\ ~matchesMime(contentType, f.mimeInclude))

\* an undefined size limit is -1
Undefined == -1

shouldSaveBySize(f, size) ==
  /\ ~(f.maxSize # Undefined /\ size > f.maxSize)
  /\ ~(f.minSize # Undefined /\ size < f.minSize)

shouldSave(f, u, contentType, size) ==
  /\ shouldDownloadAsset(f, u)
  /\ shouldSaveByMime(f, contentType)
  /\ shouldSaveBySize(f, size)

\* ------------------------------------------------------------------------
\* The sites crawled: URLs, the page links and the responses of each page
\* ------------------------------------------------------------------------
ExCom == <<"ex", "com">>
Index == << <<"">> >>

\* https://ex.com/
Root == Url("https:", ExCom, "", Index, <<>>)
\* https://ex.com:443/a/
PageA == Url("https:", ExCom, "443", << <<"a">>, <<"">> >>, <<>>)
\* https://ex.com/c and https://ex.com/d
PageC == Url("https:", ExCom, "", << <<"c">> >>, <<>>)
PageD == Url("https:", ExCom, "", << <<"d">> >>, <<>>)
\* https://ex.com/private/p, disallowed by https://ex.com/robots.txt
PageP == Url("https:", ExCom, "", << <<"private">>, <<"p">> >>, <<>>)
\* https://ex.com/t, whose navigation times out
PageT == Url("https:", ExCom, "", << <<"t">> >>, <<>>)
\* https://sub.ex.com/x?b=2&a=1 and https://sub.ex.com/x?a=1&b=2
SubEx == <<"sub", "ex", "com">>
PageS1 == Url("https:", SubEx, "", << <<"x">> >>, << <<"b", "2">>, <<"a", "1">> >>)
PageS2 == Url("https:", SubEx, "", << <<"x">> >>, << <<"a", "1">>, <<"b", "2">> >>)
\* https://ex.com/s.css, https://cdn.net/f.woff2, https://ex.com/frame,
\* https://ex.com/gone.png
AssetCss == Url("https:", ExCom, "", << <<"s", "css">> >>, <<>>)
AssetFont == Url("https:", <<"cdn", "net">>, "", << <<"f", "woff2">> >>, <<>>)
AssetFrame == Url("https:", ExCom, "", << <<"frame">> >>, <<>>)
AssetGone == Url("https:", ExCom, "", << <<"gone", "png">> >>, <<>>)
\* https://ex.com/s.css.map
AssetMap == Url("https:", ExCom, "", << <<"s", "css", "map">> >>, <<>>)
\* data:image/png;base64,...
AssetData == Url("data:", <<>>, "", << <<"image", "png">> >>, <<>>)
\* https://ex.com/lost.png, whose body cannot be read: response.body() rejects
AssetLost == Url("https:", ExCom, "", << <<"lost", "png">> >>, <<>>)
\* https://cdn.net/style.css, which only an <a href> names
AssetCdn == Url("https:", <<"cdn", "net">>, "", << <<"style", "css">> >>, <<>>)

\* https://shop.co.uk/, https://www.shop.co.uk/w, and https://other.co.uk/o,
\* whose HTML cannot be written
UkRoot == Url("https:", <<"shop", "co", "uk">>, "", Index, <<>>)
UkW == Url("https:", <<"www", "shop", "co", "uk">>, "", << <<"w">> >>, <<>>)
UkO == Url("https:", <<"other", "co", "uk">>, "", << <<"o">> >>, <<>>)

\* https://site.io/ and its pages /a, /c and /d, and https://w.site.io/w;
\* no robots.txt is served, nothing fails
SiteIo == <<"site", "io">>
IoRoot == Url("https:", SiteIo, "", Index, <<>>)
IoA == Url("https:", SiteIo, "", << <<"a">> >>, <<>>)
IoC == Url("https:", SiteIo, "", << <<"c">> >>, <<>>)
IoD == Url("https:", SiteIo, "", << <<"d">> >>, <<>>)
IoW == Url("https:", <<"w", "site", "io">>, "", << <<"w">> >>, <<>>)

Sites == {"ex", "uk"}
rootOf(s) == CASE s = "ex" -> Root [] s = "uk" -> UkRoot [] s = "io" -> IoRoot

Pages ==
  {normalizeUrl(u) : u \in {Root, PageA, PageS1, PageC, PageD, PageP, PageT,
                            UkRoot, UkW, UkO, IoRoot, IoA, IoC, IoD, IoW}}

\* result.links.pages of the capture of page u
pageLinks(u) ==
  CASE u = Root -> <<PageA, AssetCss, PageS1, PageP, AssetCdn>>
    [] u = normalizeUrl(PageA) -> <<PageS2, PageC, PageT>>
    [] u = PageC -> <<PageD>>
    [] u = PageD -> <<Root>>
    [] u = UkRoot -> <<UkW, UkO>>
    [] u = UkW -> <<UkRoot>>
    [] u = IoRoot -> <<IoA, IoW, IoC>>
    [] u = IoA -> <<IoC>>
    [] u = IoC -> <<IoD>>
    [] OTHER -> <<>>

\* page.goto throws and the tab has no http(s) URL
navigationFails(u) == u = PageT
\* fs.writeFile of the page's HTML throws
writeFails(u) == u = UkO

Response(u, status, contentType, size, readable) ==
  [url |-> u, status |-> status, contentType |-> contentType, size |-> size,
   readable |-> readable]

\* the responses the tab produces while page u loads, in order
responses(u) ==
  CASE u = Root ->
         <<Response(AssetCss, 200, <<"text", "css">>, 2, TRUE),
           Response(AssetFont, 200, <<"font", "woff2">>, 3, TRUE),
           Response(AssetFrame, 200, <<"text", "html">>, 4, TRUE),
           Response(AssetGone, 404, <<"image", "png">>, 1, TRUE),
           Response(AssetMap, 200, <<"application", "json">>, 1, TRUE),
           Response(AssetData, 200, <<"image", "png">>, 1, TRUE),
           Response(AssetLost, 200, <<"image", "png">>, 1, FALSE)>>
    [] u = normalizeUrl(PageA) ->
         <<Response(AssetCss, 200, <<"text", "css">>, 2, TRUE)>>
    [] OTHER -> <<>>

Origins == {Origin(u) : u \in Pages}

\* the first path segments the origin's robots.txt disallows for the user
\* agent; HasRobotsTxt is false when /robots.txt is not served
HasRobotsTxt(o) == o = Origin(Root)
Disallowed(u) ==
  /\ HasRobotsTxt(Origin(u))
  /\ Len(u.pathname) >= 2 /\ u.pathname[1] = <<"private">>

\* ------------------------------------------------------------------------
\* src/src/page-capture.js, the response sniffer
\* ------------------------------------------------------------------------
sniffMatchesMime(contentType, filters) ==
  \E i \in 1..Len(filters) :
     IF filters[i][2] = "*"
     THEN contentType # <<>> /\ contentType[1] = filters[i][1]
     ELSE contentType = filters[i]

\* EXCLUDE_URL_PATTERNS, of which the sites meet /\.map$/i only
shouldExcludeUrl(u) ==
  /\ u.search = <<>>
  /\ Len(Last(u.pathname)) >= 2 /\ Last(Last(u.pathname)) = "map"

\* _collectResource with the test `if (!body) return` left out
collectsUnread(o, r) ==
  /\ ~(r.status < 200 \/ r.status >= 400)
  /\ r.contentType # <<"text", "html">>
  /\ r.url.protocol # "data:"
  /\ ~shouldExcludeUrl(r.url)
  /\ ~(Len(o.mimeExclude) > 0 /\ sniffMatchesMime(r.contentType, o.mimeExclude))
  /\ ~(Len(o.mimeInclude) > 0 /\ ~sniffMatchesMime(r.contentType, o.mimeInclude))
  /\ ~(o.maxSize # Undefined /\ o.maxSize # 0 /\ r.size > o.maxSize)
  /\ ~(o.minSize # Undefined /\ o.minSize # 0 /\ r.size < o.minSize)

\* _collectResource: does the response enter the resource map
collects(o, r) ==
  /\ ~(r.status < 200 \/ r.status >= 400)
  /\ r.contentType # <<"text", "html">>
  /\ r.url.protocol # "data:"
  /\ ~shouldExcludeUrl(r.url)
  /\ ~(Len(o.mimeExclude) > 0 /\ sniffMatchesMime(r.contentType, o.mimeExclude))
  /\ ~(Len(o.mimeInclude) > 0 /\ ~sniffMatchesMime(r.contentType, o.mimeInclude))
  /\ r.readable
  /\ ~(o.maxSize # Undefined /\ o.maxSize # 0 /\ r.size > o.maxSize)
  /\ ~(o.minSize # Undefined /\ o.minSize # 0 /\ r.size < o.minSize)

\* result.resources of the capture of page u, in insertion order
resourcesOf(o, u) == SelectSeq(responses(u), LAMBDA r : collects(o, r))

\* ------------------------------------------------------------------------
\* Option bags
\* ------------------------------------------------------------------------
BaseOptions(s, d, c) ==
  [url |-> rootOf(s), depth |-> d, concurrency |-> c, scope |-> "domain",
   stayInDir |-> FALSE, externalAssets |-> FALSE,
   include |-> <<>>, exclude |-> <<>>, mimeInclude |-> <<>>,
   mimeExclude |-> <<>>, maxSize |-> Undefined, minSize |-> Undefined,
   maxPages |-> 0, maxTime |-> 0, ignoreRobots |-> FALSE, useCache |-> FALSE]

\* exclude = ["https://ex.com/private/*"]
ExcludePrivate == << << <<"https:">>, ExCom, <<"private">>, STAR >> >>

Variants(o) ==
  {o,
   [o EXCEPT !.scope = "subdomain"],
   [o EXCEPT !.scope = "all"],
   [o EXCEPT !.externalAssets = TRUE],
   [o EXCEPT !.scope = "subdomain", !.externalAssets = TRUE],
   [o EXCEPT !.exclude = ExcludePrivate],
   [o EXCEPT !.mimeExclude = << <<"font", "*">> >>],
   [o EXCEPT !.maxSize = 0],
   [o EXCEPT !.maxPages = 3],
   [o EXCEPT !.maxTime = 1],
   [o EXCEPT !.ignoreRobots = TRUE],
   [o EXCEPT !.useCache = TRUE]}

\* ------------------------------------------------------------------------
\* src/src/manifest.js
\* ------------------------------------------------------------------------
createManifest(u) ==
  [rootUrl |-> u,
   stats |-> [pagesCapt |-> 0, assetsCapt |-> 0, totalSize |-> 0,
              errors |-> 0],
   pages |-> <<>>, assets |-> <<>>]

\* Buffer.byteLength(rewrittenHtml, 'utf8') of page u
htmlSize(u) == 10 + Len(pageLinks(u))

addPageToManifest(m, u) ==
  [m EXCEPT !.pages = Append(@, [url |-> u, size |-> htmlSize(u)]),
            !.stats.pagesCapt = @ + 1,
            !.stats.totalSize = @ + htmlSize(u)]

\* the asset record pushed, the counters left as they are
addAssetUncounted(m, r) ==
  [m EXCEPT !.assets = Append(@, [url |-> r.url, mimeType |-> r.contentType,
                                  size |-> r.size])]

addAssetToManifest(m, r) ==
  [m EXCEPT !.assets = Append(@, [url |-> r.url, mimeType |-> r.contentType,
                                  size |-> r.size]),
            !.stats.assetsCapt = @ + 1,
            !.stats.totalSize = @ + r.size]

addErrorToManifest(m) == [m EXCEPT !.stats.errors = @ + 1]

RECURSIVE addAssets(_, _)
addAssets(m, rs) ==
  IF rs = <<>> THEN m ELSE addAssets(addAssetToManifest(m, Head(rs)), Tail(rs))

\* the manifest an interrupted run of the same site left in the output dir
PriorManifest(s) ==
  addPageToManifest(addPageToManifest(createManifest(rootOf(s)), rootOf(s)),
                    normalizeUrl(Head(pageLinks(rootOf(s)))))

\* A run: the option bag, the events the caller listens to, the manifest
\* file found in the output directory, and whether fetches of robots.txt
\* may fail.
Run(o, l, prior, f) ==
  [options |-> o, listeners |-> l, disk |-> prior, flaky |-> f]

\* cli.js registers a listener for `error`, the capture() of index.js none
RunsOf(s, o) ==
  {Run(v, {"error"}, <<>>, FALSE) : v \in Variants(o)}
    \cup {Run(o, {}, <<>>, FALSE),
          Run(o, {"error"}, <<>>, TRUE),
          Run(o, {"error"}, <<PriorManifest(s)>>, FALSE),
          Run([o EXCEPT !.useCache = TRUE], {"error"}, <<PriorManifest(s)>>, FALSE)}

\* --stay-in-dir with the root URL given as the directory https://ex.com:443/a/
StayInDir(o) == [o EXCEPT !.url = PageA, !.stayInDir = TRUE]

Runs ==
  UNION {RunsOf(s, BaseOptions(s, d, c)) :
           s \in Sites, d \in 0..MaxDepth, c \in 1..MaxWorkers}
    \cup {Run(StayInDir(BaseOptions("ex", d, c)), {"error"}, <<>>, FALSE) :
            d \in 0..MaxDepth, c \in 1..MaxWorkers}
    \cup {Run(BaseOptions("io", d, c), {"error"}, <<>>, FALSE) :
            d \in 0..MaxDepth, c \in 1..MaxWorkers}

\* ------------------------------------------------------------------------
\* State
\* ------------------------------------------------------------------------
VARIABLES
  options,      \* the option bag given to the Crawler constructor
  listeners,    \* the events the caller registered a listener for
  disk,         \* <output>/.smippo/manifest.json: <<>> or <<manifest>>
  manifest,     \* this.manifest: <<>> (null) or <<manifest>>
  visited,      \* this.visited
  queue,        \* jobs waiting in this.queue
  tasks,        \* task 0 is start(), tasks 1..concurrency the running jobs
  robotsCache,  \* this.robots.cache, by origin: "unseen", "null" or "rules"
  fetchFailed,  \* origins whose robots.txt fetch returned nothing
  savedFiles,   \* the keys of this.saver.savedFiles
  captures,     \* how often each URL was handed to PageCapture.capture
  errorEvents,  \* number of `error` events delivered to a listener
  cssRewritten, \* the saved CSS files _rewriteCssFiles went through
  browser,      \* "open", "context closed" or "closed"
  escaped,      \* number of _capturePage promises that rejected
  crashed,      \* the process died of an unhandled rejection
  elapsed,      \* Date.now() - startTime >= maxTime
  flaky,        \* fetches of robots.txt may fail in this run
  probe         \* the call under study when a library function runs alone

vars == <<options, listeners, disk, manifest, visited, queue, tasks,
          robotsCache, fetchFailed, savedFiles, cssRewritten, browser,
          captures,
          errorEvents, escaped, crashed, elapsed, flaky, probe>>

\* a task that runs nothing; `call` is set while the task is suspended in
\* _crawl(callUrl, callDepth), waiting for the robots.txt fetch; urlMap is
\* the keys of the copy of saver.savedFiles that _capturePage works with
Idle ==
  [pc |-> "idle", url |-> BadUrl, depth |-> 0, links |-> <<>>,
   call |-> FALSE, callUrl |-> BadUrl, callDepth |-> 0, urlMap |-> {}]

Workers == 1..options.concurrency

\* new Filter({baseUrl: this.url, ...})
filter ==
  [baseUrl |-> normalizeUrl(options.url), scope |-> options.scope,
   stayInDir |-> options.stayInDir, externalAssets |-> options.externalAssets,
   include |-> options.include, exclude |-> options.exclude,
   mimeInclude |-> options.mimeInclude, mimeExclude |-> options.mimeExclude,
   maxSize |-> options.maxSize, minSize |-> options.minSize]

Init ==
  /\ \E r \in Runs :
       /\ options = r.options
       /\ listeners = r.listeners
       /\ disk = r.disk
       /\ flaky = r.flaky
  /\ manifest = <<>>
  /\ visited = {}
  /\ queue = <<>>
  /\ tasks = [t \in 0..MaxWorkers |-> IF t = 0 THEN [Idle EXCEPT !.pc = "start"] ELSE Idle]
  /\ robotsCache = [o \in Origins |-> "unseen"]
  /\ fetchFailed = {}
  /\ savedFiles = {}
  /\ cssRewritten = {}
  /\ browser = "open"
  /\ captures = [u \in Pages |-> 0]
  /\ errorEvents = 0
  /\ escaped = 0
  /\ crashed = FALSE
  /\ elapsed = FALSE
  /\ probe = <<>>

\* ------------------------------------------------------------------------
\* p-queue
\* ------------------------------------------------------------------------
jobTask(job) == [Idle EXCEPT !.pc = "capture", !.url = job.url, !.depth = job.depth]

freeSlotsAll(ts) == {w \in 1..MaxWorkers : ts[w].pc = "idle"}

freeSlots(ts) == {w \in Workers : ts[w].pc = "idle"}

\* queue.add(job): the job starts at once when a slot is free
queueAdd(ts, q, job) ==
  IF freeSlots(ts) # {}
  THEN LET w == CHOOSE x \in freeSlots(ts) : \A y \in freeSlots(ts) : x <= y
       IN [tasks |-> [ts EXCEPT ![w] = jobTask(job)], queue |-> q]
  ELSE [tasks |-> ts, queue |-> Append(q, job)]

\* the job of slot w settled: the next waiting job takes the slot
jobDone(ts, q, w) ==
  IF q = <<>> THEN [tasks |-> [ts EXCEPT ![w] = Idle], queue |-> q]
  ELSE [tasks |-> [ts EXCEPT ![w] = jobTask(Head(q))], queue |-> Tail(q)]

\* ------------------------------------------------------------------------
\* Crawler._crawl.  The shared state it reads and writes is threaded through
\* as st = [tasks, queue, visited].  A call runs without interruption unless
\* robots.txt of the URL's origin has to be fetched: only then does
\* `await this.robots.isAllowed(...)` wait for I/O, and other tasks run.
\* ------------------------------------------------------------------------
\* the four early returns of _crawl
crawlProceeds(u, seen) ==
  /\ u \notin seen
  /\ ~(options.maxPages # 0 /\ Cardinality(seen) >= options.maxPages)
  /\ ~(options.maxTime # 0 /\ elapsed)
  /\ shouldFollow(filter, u)

\* RobotsHandler.isAllowed/getRobots up to the fetch: what the call will use
robotsLookup(u) ==
  IF options.ignoreRobots THEN "off"
  ELSE IF robotsCache[Origin(u)] = "unseen" THEN "fetch"
  ELSE robotsCache[Origin(u)]

\* RobotsHandler.isAllowed given what getRobots returned
isAllowedAlways(got, u) == TRUE

isAllowed(got, u) ==
  IF got \in {"off", "null"} THEN TRUE ELSE ~Disallowed(u)

\* this.visited.add(url); this.queue.add(...)
markAndQueue(st, u, d) ==
  LET added == queueAdd(st.tasks, st.queue, [url |-> u, depth |-> d])
  IN [tasks |-> added.tasks, queue |-> added.queue,
      visited |-> st.visited \cup {u}]

\* _crawl(link, d) called by task t, up to its return or its suspension
crawl(st, t, link, d) ==
  LET u == normalizeUrl(link)
  IN IF ~crawlProceeds(u, st.visited) THEN st
     ELSE IF robotsLookup(u) = "fetch"
          THEN [st EXCEPT !.tasks[t].call = TRUE, !.tasks[t].callUrl = u,
                          !.tasks[t].callDepth = d]
     ELSE IF isAllowed(robotsLookup(u), u) THEN markAndQueue(st, u, d)
     ELSE st

\* the depth _capturePage passes to _crawl for the links of a page
childDepthSame(d) == d

childDepth(d) == d - 1

\* the loop over result.links.pages of job w, until it ends or suspends; an
\* iteration works on the state as the previous one left it (bound as s)
RECURSIVE crawlLinks(_, _)
crawlLinks(st, w) ==
  LET iterate(s) ==
        LET tk == s.tasks[w]
        IN IF tk.call \/ tk.links = <<>> THEN s
           ELSE crawlLinks(crawl([s EXCEPT !.tasks[w].links = Tail(@)], w,
                                 Head(tk.links), childDepth(tk.depth)), w)
  IN CHOOSE after \in {iterate(s) : s \in {st}} : TRUE

\* ------------------------------------------------------------------------
\* Crawler.start
\* ------------------------------------------------------------------------
\* start() up to `await this.queue.onIdle()`, or to the fetch inside _crawl
Start ==
  /\ ~crashed
  /\ tasks[0].pc = "start"
  /\ manifest' = IF options.useCache /\ disk # <<>> THEN disk
                 ELSE <<createManifest(normalizeUrl(options.url))>>
  /\ LET st == crawl([tasks |-> [tasks EXCEPT ![0].pc = "onIdle"],
                      queue |-> queue, visited |-> visited],
                     0, normalizeUrl(options.url), options.depth)
     IN /\ tasks' = st.tasks
        /\ queue' = st.queue
        /\ visited' = st.visited
  /\ UNCHANGED <<probe, cssRewritten, browser, options, listeners, disk, robotsCache, fetchFailed,
                 savedFiles, captures, errorEvents, escaped, crashed, elapsed, flaky>>

\* the robots.txt fetch of a suspended _crawl settles: cache.set, the
\* verdict, visited.add, queue.add, and the caller goes on
Resume(t) ==
  /\ ~crashed
  /\ tasks[t].call
  /\ \E ok \in IF flaky THEN BOOLEAN ELSE {TRUE} :
       LET u == tasks[t].callUrl
           o == Origin(u)
           got == IF ok /\ HasRobotsTxt(o) THEN "rules" ELSE "null"
           back == [tasks |-> [tasks EXCEPT ![t].call = FALSE],
                    queue |-> queue, visited |-> visited]
           after == IF isAllowed(got, u)
                    THEN markAndQueue(back, u, tasks[t].callDepth) ELSE back
           st == IF t = 0 THEN after ELSE crawlLinks(after, t)
       IN /\ robotsCache' = [robotsCache EXCEPT ![o] = got]
          /\ fetchFailed' = IF got = "null" THEN fetchFailed \cup {o}
                            ELSE fetchFailed
          /\ tasks' = st.tasks
          /\ queue' = st.queue
          /\ visited' = st.visited
  /\ UNCHANGED <<probe, cssRewritten, browser, options, listeners, disk, manifest, savedFiles, captures,
                 errorEvents, escaped, crashed, elapsed, flaky>>

\* queue.onEmpty() resolves when no job waits, whether or not one still runs
onEmpty == queue = <<>>

\* queue.onIdle() resolves when the queue is empty and no job runs
onIdle == queue = <<>> /\ \A w \in 1..MaxWorkers : tasks[w].pc = "idle"

\* queue.onIdle() resolved: finalizeManifest, writeManifest, writeCache; the
\* write of the manifest file may throw, and start() then goes to its
\* finally block with nothing written
Finalize ==
  /\ ~crashed
  /\ tasks[0].pc = "onIdle" /\ ~tasks[0].call
  /\ onIdle
  /\ \E written \in BOOLEAN :
       /\ disk' = IF written THEN manifest ELSE disk
       /\ tasks' = [tasks EXCEPT ![0].pc = IF written THEN "finally" ELSE "thrown"]
  /\ UNCHANGED <<probe, cssRewritten, browser, options, listeners, manifest, visited, queue,
                 robotsCache, fetchFailed, savedFiles, captures, errorEvents,
                 escaped, crashed, elapsed, flaky>>

\* finally { _closeBrowser() }: await this.context.close()
CloseContext ==
  /\ ~crashed
  /\ tasks[0].pc \in {"finally", "thrown"}
  /\ browser = "open"
  /\ browser' = "context closed"
  /\ UNCHANGED <<probe, cssRewritten, options, listeners, disk, manifest, visited, queue,
                 tasks, robotsCache, fetchFailed, savedFiles, captures,
                 errorEvents, escaped, crashed, elapsed, flaky>>

\* await this.browser.close(); start() returns its result, or rethrows
CloseBrowser ==
  /\ ~crashed
  /\ tasks[0].pc \in {"finally", "thrown"}
  /\ browser = "context closed"
  /\ browser' = "closed"
  /\ tasks' = [tasks EXCEPT ![0].pc = IF @ = "finally" THEN "done" ELSE "rejected"]
  /\ UNCHANGED <<probe, cssRewritten, options, listeners, disk, manifest, visited, queue,
                 robotsCache, fetchFailed, savedFiles, captures, errorEvents,
                 escaped, crashed, elapsed, flaky>>

\* ------------------------------------------------------------------------
\* Crawler._capturePage
\* ------------------------------------------------------------------------
\* the catch and finally blocks: count the error, emit `error`, close the tab.
\* EventEmitter.emit('error') throws when no listener is registered; the
\* rejection of the job is handled nowhere, so the process may die of it.
Fail(w) ==
  /\ manifest' = <<addErrorToManifest(manifest[1])>>
  /\ LET next == jobDone(tasks, queue, w)
     IN /\ tasks' = next.tasks
        /\ queue' = next.queue
  /\ IF "error" \in listeners
     THEN /\ errorEvents' = errorEvents + 1
          /\ UNCHANGED <<escaped, crashed>>
     ELSE /\ escaped' = escaped + 1
          /\ crashed' \in BOOLEAN
          /\ UNCHANGED errorEvents

\* the copy of the URL map taken before saver.saveResources
getUrlMapEarly(before, after) == before

\* saver.getUrlMap(), called when saver.saveResources has returned
getUrlMap(before, after) == after

\* capture.capture(url), saver.saveResources, the asset records, getUrlMap
Capture(w) ==
  /\ ~crashed
  /\ w \in Workers
  /\ tasks[w].pc = "capture"
  /\ captures' = [captures EXCEPT ![tasks[w].url] = @ + 1]
  /\ IF navigationFails(tasks[w].url)
     THEN /\ Fail(w)
          /\ UNCHANGED savedFiles
     ELSE LET rs == resourcesOf(options, tasks[w].url)
          IN /\ savedFiles' = savedFiles \cup {rs[i].url : i \in 1..Len(rs)}
             /\ manifest' = <<addAssets(manifest[1], rs)>>
             /\ tasks' = [tasks EXCEPT
                            ![w].pc = "css",
                            ![w].urlMap = getUrlMap(savedFiles, savedFiles')]
             /\ UNCHANGED <<queue, errorEvents, escaped, crashed>>
  /\ UNCHANGED <<probe, cssRewritten, browser, options, listeners, disk, visited, robotsCache, fetchFailed,
                 elapsed, flaky>>

\* contentType.includes('text/css') || resourceUrl.endsWith('.css')
isCss(r) ==
  r.contentType = <<"text", "css">> \/ EndsWith(pathnameOf(r.url), ".css")

\* the resources of page u that _rewriteCssFiles reads, rewrites and writes
cssFiles ==
  [u \in Pages |->
     [o \in {r.options : r \in Runs} |->
        LET rs == resourcesOf(o, u)
        IN {rs[i].url : i \in {j \in 1..Len(rs) : isCss(rs[j])}}]]

\* _rewriteCssFiles(result.resources, urlMap)
RewriteCss(w) ==
  /\ ~crashed
  /\ w \in Workers
  /\ tasks[w].pc = "css"
  /\ cssRewritten' =
       cssRewritten \cup (cssFiles[tasks[w].url][options] \cap tasks[w].urlMap)
  /\ tasks' = [tasks EXCEPT ![w].pc = "html"]
  /\ UNCHANGED <<probe, browser, options, listeners, disk, manifest, visited,
                 queue, robotsCache, fetchFailed, savedFiles, captures,
                 errorEvents, escaped, crashed, elapsed, flaky>>

\* result.links.pages the loop iterates, each tested with isLikelyPage
likelyPages == [u \in Pages |-> SelectSeq(pageLinks(u), isLikelyPage)]

linksToCrawl(u, d) == IF d > 0 THEN likelyPages[u] ELSE <<>>

\* rewriteLinks, saver.saveHtml, the page record, page:complete, and the
\* loop over the page's links up to its end or its first suspension
SaveHtml(w) ==
  /\ ~crashed
  /\ w \in Workers
  /\ tasks[w].pc = "html"
  /\ IF writeFails(tasks[w].url)
     THEN /\ Fail(w)
          /\ UNCHANGED <<savedFiles, visited>>
     ELSE LET tk == tasks[w]
              st == crawlLinks(
                      [tasks |-> [tasks EXCEPT ![w].pc = "links",
                                    ![w].urlMap = {},
                                    ![w].links = linksToCrawl(tk.url, tk.depth)],
                       queue |-> queue, visited |-> visited], w)
          IN /\ savedFiles' = savedFiles \cup {tk.url}
             /\ manifest' = <<addPageToManifest(manifest[1], tk.url)>>
             /\ tasks' = st.tasks
             /\ queue' = st.queue
             /\ visited' = st.visited
             /\ UNCHANGED <<errorEvents, escaped, crashed>>
  /\ UNCHANGED <<probe, cssRewritten, browser, options, listeners, disk, robotsCache, fetchFailed,
                 captures, elapsed, flaky>>

\* the loop is over: finally { page.close() }, the job resolves
FinishJob(w) ==
  /\ ~crashed
  /\ w \in Workers
  /\ tasks[w].pc = "links" /\ ~tasks[w].call
  /\ tasks[w].links = <<>>
  /\ LET next == jobDone(tasks, queue, w)
     IN /\ tasks' = next.tasks
        /\ queue' = next.queue
  /\ UNCHANGED <<probe, cssRewritten, browser, options, listeners, disk, manifest, visited, robotsCache,
                 fetchFailed, savedFiles, captures, errorEvents, escaped,
                 crashed, elapsed, flaky>>

\* the clock passes startTime + maxTime
Tick ==
  /\ ~crashed
  /\ options.maxTime # 0 /\ ~elapsed
  /\ tasks[0].pc \in {"start", "onIdle"}
  /\ elapsed' = TRUE
  /\ UNCHANGED <<probe, cssRewritten, browser, options, listeners, disk, manifest, visited, queue, tasks,
                 robotsCache, fetchFailed, savedFiles, captures, errorEvents,
                 escaped, crashed, flaky>>

Next ==
  \/ Start
  \/ \E t \in 0..MaxWorkers : Resume(t)
  \/ \E w \in 1..MaxWorkers : Capture(w)
  \/ \E w \in 1..MaxWorkers : RewriteCss(w)
  \/ \E w \in 1..MaxWorkers : SaveHtml(w)
  \/ \E w \in 1..MaxWorkers : FinishJob(w)
  \/ Finalize
  \/ CloseContext
  \/ CloseBrowser
  \/ Tick

Spec == Init /\ [][Next]_vars

\* ------------------------------------------------------------------------
\* Properties
\* ------------------------------------------------------------------------
RootUrl == normalizeUrl(options.url)
Done == tasks[0].pc = "done"
Captured == {u \in Pages : captures[u] > 0}

RECURSIVE total(_, _)
total(f, S) ==
  IF S = {} THEN 0
  ELSE LET x == CHOOSE y \in S : TRUE IN f[x] + total(f, S \ {x})

\* the number of page captures started so far
capturesStarted == total(captures, Pages)

urlsOf(records) == {records[i].url : i \in 1..Len(records)}
noDuplicates(records) ==
  \A i, j \in 1..Len(records) : records[i].url = records[j].url => i = j

\* C1: Page Capture is invoked at most once for every normalized URL,
\* whatever the concurrency and the interleaving of the workers.
C1_CapturedAtMostOnce == \A u \in Pages : captures[u] <= 1

\* C2: with maxPages = M > 0, the number of page captures started, the size
\* of the visited set and the number of page records of the manifest never
\* exceed M.
C2_MaxPagesBound ==
  (options.maxPages # 0 /\ manifest # <<>>) =>
     /\ capturesStarted <= options.maxPages
     /\ Cardinality(visited) <= options.maxPages
     /\ Len(manifest[1].pages) <= options.maxPages

\* the pages a page links to, and the pages within k links of a root URL
linked == [u \in Pages |->
             {normalizeUrl(pageLinks(u)[i]) : i \in 1..Len(pageLinks(u))}]

RECURSIVE reach(_, _)
reach(r, k) ==
  IF k = 0 THEN {r}
  ELSE LET near == reach(r, k - 1)
       IN near \cup UNION {linked[u] : u \in near \cap Pages}

nearby == [r \in Pages |-> [k \in 0..MaxDepth |-> reach(r, k)]]

within(k) == nearby[RootUrl][k]

\* C3: no page is captured whose shortest link distance from the root
\* exceeds `depth`: a job with remaining depth r is for a page within
\* depth - r links of the root, r is never negative, and so every captured
\* page is within `depth` links of the root.
C3_DepthBound ==
  /\ \A w \in 1..MaxWorkers :
       tasks[w].pc # "idle" =>
         /\ tasks[w].depth \in 0..options.depth
         /\ tasks[w].url \in within(options.depth - tasks[w].depth)
  /\ \A i \in 1..Len(queue) :
       /\ queue[i].depth \in 0..options.depth
       /\ queue[i].url \in within(options.depth - queue[i].depth)
  /\ Captured \subseteq within(options.depth)

\* a crawl of depth 1 is over: the page one link away was captured, the
\* page two links away was not
C3_Witness ==
  /\ Done /\ options.depth = 1 /\ options.url = Root
  /\ captures[normalizeUrl(PageA)] = 1
  /\ captures[PageC] = 0

\* the registrable domain of a host: its last two labels, or its last
\* three when it ends in co.uk, com.au, co.nz or org.uk
registrableDomain(h) ==
  IF Len(h) >= 3 /\ <<h[Len(h) - 1], h[Len(h)]>> \in
       {<<"co", "uk">>, <<"com", "au">>, <<"co", "nz">>, <<"org", "uk">>}
  THEN <<h[Len(h) - 2], h[Len(h) - 1], h[Len(h)]>>
  ELSE IF Len(h) >= 2 THEN <<h[Len(h) - 1], h[Len(h)]>>
  ELSE h

\* C4: with scope = "domain", every captured page and every page record of
\* this run has the registrable domain of the root URL.
C4_DomainScope ==
  options.scope = "domain" =>
    \A u \in Captured \cup
             (IF manifest = <<>> THEN {} ELSE urlsOf(manifest[1].pages)) :
       registrableDomain(u.hostname) = registrableDomain(RootUrl.hostname)

\* a crawl of shop.co.uk is over: www.shop.co.uk was captured, other.co.uk
\* was not
C4_Witness ==
  /\ Done /\ options.scope = "domain" /\ options.url = UkRoot
  /\ captures[UkW] = 1 /\ UkW \in urlsOf(manifest[1].pages)
  /\ captures[UkO] = 0

\* C5: with externalAssets unset, every resource saved and recorded in the
\* manifest satisfies filter.shouldSave(url, mime, size).
C5_SavedPassFilter ==
  (~options.externalAssets /\ manifest # <<>>) =>
    \A i \in 1..Len(manifest[1].assets) :
       LET a == manifest[1].assets[i]
       IN shouldSave(filter, a.url, a.mimeType, a.size)

C7_ErrorsContained ==
  /\ escaped = 0
  /\ ~crashed
  /\ manifest # <<>> => errorEvents = manifest[1].stats.errors

\* C8: every URL has at most one record in manifest.pages and at most one
\* in manifest.assets.
C8_ManifestUnique ==
  manifest # <<>> =>
    /\ noDuplicates(manifest[1].pages)
    /\ noDuplicates(manifest[1].assets)

\* C9: on resume, every page URL of the prior manifest is in `visited`
\* before the first capture starts, and no such page is captured again.
C9_ResumeSkipsCaptured ==
  (options.useCache /\ disk # <<>> /\ ~Done) =>
    /\ capturesStarted > 0 => urlsOf(disk[1].pages) \subseteq visited
    /\ \A u \in urlsOf(disk[1].pages) : captures[u] = 0

\* C10: the manifest on disk is updated after each page: once a page's
\* capture is over, its record is in the manifest file.
C10_ManifestOnDisk ==
  manifest # <<>> =>
    \A u \in urlsOf(manifest[1].pages) :
       (\A w \in 1..MaxWorkers : tasks[w].pc = "idle" \/ tasks[w].url # u) =>
          disk # <<>> /\ u \in urlsOf(disk[1].pages)

\* ------------------------------------------------------------------------
\* Node's path module on POSIX paths, as src/utils/path.js uses it
\* ------------------------------------------------------------------------
\* s.split(c)
Split(s, c) ==
  LET at == {0, Len(s) + 1} \cup {i \in 1..Len(s) : Char(s, i) = c}
      nth(k) == CHOOSE i \in at : Cardinality({j \in at : j < i}) = k - 1
  IN [k \in 1..(Cardinality(at) - 1) |-> SubSeq(s, nth(k) + 1, nth(k + 1) - 1)]

\* the segments a relative segment list leads to from directory dir; a `..`
\* that leaves the output tree stays in the result
RECURSIVE walk(_, _)
walk(dir, segs) ==
  IF segs = <<>> THEN dir
  ELSE LET seg == Head(segs)
       IN IF seg = "" \/ seg = "." THEN walk(dir, Tail(segs))
          ELSE IF seg = ".." /\ dir # <<>> /\ Last(dir) # ".."
               THEN walk(Front(dir), Tail(segs))
          ELSE walk(Append(dir, seg), Tail(segs))

\* path.normalize, as segments
segmentsOf(path) == walk(<<>>, Split(path, "/"))

\* path.dirname, as segments
dirname(path) ==
  LET segs == segmentsOf(path) IN IF segs = <<>> THEN <<>> ELSE Front(segs)

\* path.relative(from, to) of two segment lists
relative(from, to) ==
  LET same == {k \in 0..Len(from) :
                 k <= Len(to) /\ SubSeq(from, 1, k) = SubSeq(to, 1, k)}
      n == CHOOSE k \in same : \A m \in same : m <= k
  IN Join([i \in 1..(Len(from) - n) |-> ".."] \o SubSeq(to, n + 1, Len(to)), "/")

getRelativePath(from, to) ==
  LET rel == relative(dirname(from), segmentsOf(to))
  IN IF ~StartsWith(rel, ".") /\ ~StartsWith(rel, "/") THEN "./" \o rel ELSE rel

\* joinPath(outputDir, path), relative to the output directory
joinPath(path) == Join(segmentsOf(path), "/")

\* the file a link value found in the file at `from` points to
resolveFrom(from, value) == Join(walk(dirname(from), Split(value, "/")), "/")

\* ------------------------------------------------------------------------
\* src/src/resource-saver.js
\* ------------------------------------------------------------------------
\* mime.extension
mimeExtension(contentType) ==
  CASE contentType = <<"text", "css">> -> "css"
    [] contentType = <<"image", "png">> -> "png"
    [] contentType = <<"font", "woff2">> -> "woff2"
    [] contentType = <<"application", "json">> -> "json"
    [] contentType = <<"text", "html">> -> "html"
    [] OTHER -> ""

knownExtensions ==
  {"html", "htm", "css", "js", "mjs", "json", "xml", "png", "jpg", "jpeg",
   "gif", "webp", "svg", "ico", "bmp", "woff", "woff2", "ttf", "eot", "otf",
   "mp3", "mp4", "webm", "ogg", "wav", "avi", "pdf", "zip", "tar", "gz"}

\* path.extname(filePath).slice(1)
extname(filePath) ==
  LET dot == LastIndexOf(filePath, ".")
      slash == LastIndexOf(filePath, "/")
  IN IF dot > slash + 1 THEN SubSeq(filePath, dot + 1, Len(filePath)) ELSE ""

fixExtension(filePath, contentType) ==
  LET expectedExt == mimeExtension(contentType)
      currentExt == extname(filePath)
      equivalentExtensions ==
        {{"jpg", "jpeg"}, {"html", "htm"}, {"js", "mjs", "cjs"}}
  IN IF contentType = <<>> \/ expectedExt = "" THEN filePath
     ELSE IF currentExt = expectedExt
             \/ \E g \in equivalentExtensions : {currentExt, expectedExt} \subseteq g
          THEN filePath
     ELSE IF currentExt = "" \/ currentExt \notin knownExtensions
          THEN filePath \o "." \o expectedExt
     ELSE filePath

\* Map.set
mapSet(m, key, value) ==
  [k \in DOMAIN m \cup {key} |-> IF k = key THEN value ELSE m[k]]

\* a saver is its structure, savedFiles (URL -> relative path) and the files
\* of the output directory (path -> the URL whose content the file holds)
newSaver(structure) ==
  [structure |-> structure, savedFiles |-> <<>>, files |-> <<>>]

saveHtml(sv, u) ==
  LET relativePath == urlToPath(u, sv.structure)
      localPath == joinPath(sanitizePath(relativePath))
  IN [sv EXCEPT !.files = mapSet(@, localPath, hrefOf(u)),
                !.savedFiles = mapSet(@, hrefOf(u), sanitizePath(relativePath))]

saveResource(sv, r) ==
  LET relativePath == sanitizePath(urlToPath(r.url, sv.structure))
      localPath == fixExtension(joinPath(relativePath), r.contentType)
  IN [sv EXCEPT !.files = mapSet(@, localPath, hrefOf(r.url)),
                !.savedFiles = mapSet(@, hrefOf(r.url),
                                      fixExtension(relativePath, r.contentType))]

RECURSIVE saveResources(_, _)
saveResources(sv, rs) ==
  IF rs = <<>> THEN sv ELSE saveResources(saveResource(sv, Head(rs)), Tail(rs))

\* ------------------------------------------------------------------------
\* src/src/link-rewriter.js.  A reference of a document is its kind ("attr"
\* for an HTML attribute, "url" and "import" for CSS, "srcset" for one
\* srcset entry) and the URL it names; a lookup that finds nothing is "".
\* ------------------------------------------------------------------------
\* absoluteUrl.replace(/\/$/, '')
WithoutTrailingSlash(abs) ==
  IF EndsWith(abs, "/") THEN Slice(abs, 0, Len(abs) - 1) ELSE abs

\* absoluteUrl.split('?')[0]
WithoutQuery(abs) == Split(abs, "?")[1]

\* getLocalPath of rewriteLinks, up to the target path
getLocalPath(urlMap, abs) ==
  IF abs \in DOMAIN urlMap THEN urlMap[abs]
  ELSE IF WithoutTrailingSlash(abs) \in DOMAIN urlMap
       THEN urlMap[WithoutTrailingSlash(abs)]
  ELSE IF EndsWith(abs, "/") /\ (abs \o "index.html") \in DOMAIN urlMap
       THEN urlMap[abs \o "index.html"]
  ELSE IF WithoutQuery(abs) # abs /\ WithoutQuery(abs) \in DOMAIN urlMap
       THEN urlMap[WithoutQuery(abs)]
  ELSE ""

findLocalPathExact(urlMap, abs) ==
  IF abs \in DOMAIN urlMap THEN urlMap[abs] ELSE ""

\* findLocalPath of rewriteCssUrls
findLocalPath(urlMap, abs) ==
  IF abs \in DOMAIN urlMap THEN urlMap[abs]
  ELSE IF WithoutQuery(abs) # abs /\ WithoutQuery(abs) \in DOMAIN urlMap
       THEN urlMap[WithoutQuery(abs)]
  ELSE IF WithoutTrailingSlash(abs) \in DOMAIN urlMap
       THEN urlMap[WithoutTrailingSlash(abs)]
  ELSE ""

\* the lookup of rewriteSrcset
srcsetLocalPath(urlMap, abs) ==
  IF abs \in DOMAIN urlMap THEN urlMap[abs] ELSE ""

Ref(kind, u) == [kind |-> kind, url |-> u]

\* one reference rewritten: resolveUrl, the lookup of its kind, and the
\* relative path from the page to the target
rewriteRef(ref, pagePath, urlMap) ==
  LET abs == hrefOf(ref.url)
      target == CASE ref.kind = "attr" -> getLocalPath(urlMap, abs)
                  [] ref.kind = "srcset" -> srcsetLocalPath(urlMap, abs)
                  [] OTHER -> findLocalPath(urlMap, abs)
  IN [kind |-> ref.kind, abs |-> abs, rewritten |-> target # "",
      value |-> IF target = "" THEN abs ELSE getRelativePath(pagePath, target)]

\* rewriteLinks(html, pageUrl, urlMap, {structure}): the references of the
\* page, each rewritten or left as it is
rewriteLinks(refs, pageUrl, urlMap, structure) ==
  [i \in 1..Len(refs) |-> rewriteRef(refs[i], urlToPath(pageUrl, structure), urlMap)]

\* ------------------------------------------------------------------------
\* The pages the saver and the rewriter are run on
\* ------------------------------------------------------------------------
\* a directory name of 195 characters
LongName ==
  LET x5 == "xxxxx"
      x25 == x5 \o x5 \o x5 \o x5 \o x5
      x100 == x25 \o x25 \o x25 \o x25
  IN x100 \o x25 \o x25 \o x25 \o x5 \o x5 \o x5 \o x5

\* https://ex.com/a, https://ex.com/a.html, https://www.ex.com/
SvA == Url("https:", ExCom, "", << <<"a">> >>, <<>>)
SvAHtml == Url("https:", ExCom, "", << <<"a", "html">> >>, <<>>)
WwwRoot == Url("https:", <<"www", "ex", "com">>, "", Index, <<>>)
\* https://ex.com/xxx...x/p/q
PgLong == Url("https:", ExCom, "", << <<LongName>>, <<"p">>, <<"q">> >>, <<>>)
\* https://ex.com/i.png, https://ex.com/i.png?v=2, https://ex.com/i.php,
\* https://ex.com/missing.png, https://ex.com/a/
Img == Url("https:", ExCom, "", << <<"i", "png">> >>, <<>>)
ImgV == Url("https:", ExCom, "", << <<"i", "png">> >>, << <<"v", "2">> >>)
Php == Url("https:", ExCom, "", << <<"i", "php">> >>, <<>>)
Missing == Url("https:", ExCom, "", << <<"missing", "png">> >>, <<>>)
ADir == Url("https:", ExCom, "", << <<"a">>, <<"">> >>, <<>>)

SvPages == {Root, SvA, SvAHtml, WwwRoot, PgLong}

\* result.resources of the capture of page u
svResources(u) ==
  CASE u = Root ->
         <<Response(AssetCss, 200, <<"text", "css">>, 2, TRUE),
           Response(Img, 200, <<"image", "png">>, 3, TRUE),
           Response(Php, 200, <<"image", "png">>, 3, TRUE)>>
    [] u = PgLong -> <<Response(AssetCss, 200, <<"text", "css">>, 2, TRUE)>>
    [] OTHER -> <<>>

\* the references in result.html of page u
svRefs(u) ==
  CASE u = Root ->
         <<Ref("attr", AssetCss), Ref("attr", ImgV), Ref("attr", Php),
           Ref("attr", ADir), Ref("attr", SvAHtml), Ref("attr", Missing),
           Ref("url", Img), Ref("url", ImgV), Ref("url", Missing),
           Ref("import", AssetCss), Ref("import", ADir),
           Ref("srcset", Img), Ref("srcset", ImgV)>>
    [] u = PgLong -> <<Ref("attr", AssetCss), Ref("attr", Root)>>
    [] u = SvA -> <<Ref("attr", Root), Ref("url", ImgV)>>
    [] u = SvAHtml -> <<Ref("attr", SvA), Ref("srcset", Img)>>
    [] OTHER -> <<Ref("attr", Root)>>

Structures == {"original", "flat", "domain"}

\* ------------------------------------------------------------------------
\* The saver and the rewriter run alone: the part of Crawler._capturePage
\* between the capture and the manifest update, page after page
\* ------------------------------------------------------------------------
\* the crawler does not run
Parked ==
  /\ options = BaseOptions("ex", 0, 1)
  /\ listeners = {}
  /\ disk = <<>>
  /\ flaky = FALSE
  /\ manifest = <<>>
  /\ visited = {}
  /\ queue = <<>>
  /\ tasks = [t \in 0..MaxWorkers |-> Idle]
  /\ robotsCache = [o \in Origins |-> "unseen"]
  /\ fetchFailed = {}
  /\ savedFiles = {}
  /\ cssRewritten = {}
  /\ browser = "open"
  /\ captures = [u \in Pages |-> 0]
  /\ errorEvents = 0
  /\ escaped = 0
  /\ crashed = FALSE
  /\ elapsed = FALSE

crawlerVars ==
  <<options, listeners, disk, manifest, visited, queue, tasks, robotsCache,
    fetchFailed, savedFiles, cssRewritten, browser, captures, errorEvents,
    escaped, crashed, elapsed, flaky>>

InitSaver ==
  /\ Parked
  /\ \E st \in Structures : probe = [saver |-> newSaver(st), pages |-> {}]

\* saveResources, _rewriteCssFiles aside, rewriteLinks and saveHtml of page u
SavePage(u) ==
  /\ \A pg \in probe.pages : pg.url # hrefOf(u)
  /\ LET sv == saveResources(probe.saver, svResources(u))
         urlMap == sv.savedFiles
         out == rewriteLinks(svRefs(u), u, urlMap, sv.structure)
     IN probe' = [saver |-> saveHtml(sv, u),
                  pages |-> probe.pages
                              \cup {[url |-> hrefOf(u), keys |-> DOMAIN urlMap,
                                     refs |-> out]}]
  /\ UNCHANGED crawlerVars

NextSaver == \E u \in SvPages : SavePage(u)

SpecSaver == InitSaver /\ [][NextSaver]_vars

\* C11: URLs saved under the same derived local path get distinct relative
\* paths in the URL map and distinct files: no save overwrites an earlier
\* one.
C11_DistinctFiles ==
  LET sv == probe.saver
  IN /\ \A u, v \in DOMAIN sv.savedFiles :
          u # v => sv.savedFiles[u] # sv.savedFiles[v]
     /\ Cardinality(DOMAIN sv.files) = Cardinality(DOMAIN sv.savedFiles)

\* C12: every HTML attribute that rewriteLinks rewrote names, relative to
\* the directory of the page's file as it was saved, a file of the output
\* directory.
C12_RewrittenResolve ==
  \A pg \in probe.pages :
     \A i \in 1..Len(pg.refs) :
        (pg.refs[i].kind = "attr" /\ pg.refs[i].rewritten) =>
           resolveFrom(probe.saver.savedFiles[pg.url], pg.refs[i].value)
             \in DOMAIN probe.saver.files

\* C13 as stated: a CSS url(...), an @import and a srcset URL token are
\* rewritten exactly when their absolute URL is a key of the URL map.
C13_Original ==
  \A pg \in probe.pages :
     \A i \in 1..Len(pg.refs) :
        pg.refs[i].kind \in {"url", "import", "srcset"} =>
           (pg.refs[i].rewritten <=> pg.refs[i].abs \in pg.keys)

\* C13: a srcset URL token is rewritten exactly when its absolute URL is a
\* key of the URL map; a CSS url(...) or @import is rewritten exactly when
\* its absolute URL, that URL without its query string, or that URL without
\* its trailing slash is a key; what is not rewritten is left as it is.
C13_CssAndSrcset ==
  \A pg \in probe.pages :
     \A i \in 1..Len(pg.refs) :
        LET r == pg.refs[i]
        IN /\ r.kind = "srcset" => (r.rewritten <=> r.abs \in pg.keys)
           /\ r.kind \in {"url", "import"} =>
                (r.rewritten <=>
                   \/ r.abs \in pg.keys
                   \/ WithoutQuery(r.abs) \in pg.keys
                   \/ WithoutTrailingSlash(r.abs) \in pg.keys)
           /\ r.kind \in {"url", "import", "srcset"} /\ ~r.rewritten =>
                r.value = r.abs

\* a page whose CSS names a URL found only without its query string, which
\* is rewritten, whose srcset names the same URL, which is not, and whose
\* CSS names a URL that is a key and one that is not
C13_Witness ==
  \E pg \in probe.pages :
     \E i, j, k, l \in 1..Len(pg.refs) :
        /\ pg.refs[i].kind = "url" /\ pg.refs[i].rewritten
        /\ pg.refs[i].abs \notin pg.keys
        /\ pg.refs[j].kind = "srcset" /\ ~pg.refs[j].rewritten
        /\ pg.refs[j].abs = pg.refs[i].abs
        /\ pg.refs[k].kind = "import" /\ pg.refs[k].rewritten
        /\ pg.refs[k].abs \in pg.keys
        /\ pg.refs[l].kind = "url" /\ ~pg.refs[l].rewritten

\* C14: whatever mimeExclude, maxSize >= 0 and minSize >= 0 are configured,
\* no asset recorded in the manifest has a MIME type that matches
\* mimeExclude, a size above maxSize or a size below minSize.
C14_SavedWithinLimits ==
  manifest # <<>> =>
    \A i \in 1..Len(manifest[1].assets) :
       LET a == manifest[1].assets[i]
       IN /\ ~(Len(options.mimeExclude) > 0
               /\ matchesMime(a.mimeType, options.mimeExclude))
          /\ options.maxSize # Undefined => a.size <= options.maxSize
          /\ options.minSize # Undefined => a.size >= options.minSize

\* ------------------------------------------------------------------------
\* The Filter run alone: new Filter(options).shouldFollow(url)
\* ------------------------------------------------------------------------
\* https://ex.com/tracker/t, https://ex.com/tracker, https://ex.com/private
TrackerT == Url("https:", ExCom, "", << <<"tracker">>, <<"t">> >>, <<>>)
Tracker == Url("https:", ExCom, "", << <<"tracker">> >>, <<>>)
Private == Url("https:", ExCom, "", << <<"private">> >>, <<>>)

FilterUrls == {Root, PageC, PageP, Private, Tracker, TrackerT, PageS2, AssetFont}

\* "*tracker*", "https://ex.com/private", "https://ex.com/**",
\* "https://ex.com/*"
PatTracker == << <<"*", "tracker", "*">> >>
PatPrivate == << <<"https:">>, ExCom, <<"private">> >>
PatAll == << <<"https:">>, ExCom, GLOBSTAR >>
PatTop == << <<"https:">>, ExCom, STAR >>

Excludes == {<<>>, <<PatTracker>>, <<PatPrivate>>, ExcludePrivate,
             <<PatTracker, PatPrivate>>}
Includes == {<<>>, <<PatAll>>, <<PatTop>>, ExcludePrivate}

Filters ==
  {[baseUrl |-> Root, scope |-> sc, stayInDir |-> FALSE,
    externalAssets |-> FALSE, include |-> inc, exclude |-> exc,
    mimeInclude |-> <<>>, mimeExclude |-> <<>>,
    maxSize |-> Undefined, minSize |-> Undefined] :
     sc \in {"domain", "subdomain"}, inc \in Includes, exc \in Excludes}

InitFilter ==
  /\ Parked
  /\ \E f \in Filters, u \in FilterUrls :
       probe = [filter |-> f, url |-> u, called |-> FALSE, result |-> FALSE]

CallShouldFollow ==
  /\ ~probe.called
  /\ probe' = [probe EXCEPT !.called = TRUE,
                            !.result = shouldFollow(probe.filter, probe.url)]
  /\ UNCHANGED crawlerVars

NextFilter == CallShouldFollow

SpecFilter == InitFilter /\ [][NextFilter]_vars

\* the URL matches one of the patterns of the list
matchesSome(u, patterns) ==
  \E i \in 1..Len(patterns) : matchesPattern(u, <<patterns[i]>>)

\* C15: shouldFollow(url) is true exactly when the URL is in scope, matches
\* no exclude pattern, and the include list is empty or has a pattern the
\* URL matches; a URL that matches both lists is not followed.
C15_ShouldFollow ==
  probe.called =>
    LET f == probe.filter
        u == probe.url
    IN /\ probe.result <=>
            /\ isInScope(u, f.baseUrl, f.scope, f.stayInDir)
            /\ ~matchesSome(u, f.exclude)
            /\ f.include = <<>> \/ matchesSome(u, f.include)
       /\ (matchesSome(u, f.exclude) /\ matchesSome(u, f.include)) =>
            ~probe.result

\* shouldFollow has answered for an in-scope URL that matches an include
\* and an exclude pattern
C15_Witness ==
  /\ probe.called /\ ~probe.result
  /\ isInScope(probe.url, probe.filter.baseUrl, probe.filter.scope, FALSE)
  /\ matchesSome(probe.url, probe.filter.exclude)
  /\ matchesSome(probe.url, probe.filter.include)

\* the tokens of a string split into parts, the `/` between parts included
RECURSIVE Flat(_)
Flat(parts) ==
  IF parts = <<>> THEN <<>>
  ELSE (IF Head(parts) = <<"">> THEN <<>> ELSE Head(parts))
       \o (IF Tail(parts) = <<>> THEN <<>> ELSE <<"/">> \o Flat(Tail(parts)))

\* the pattern against the whole URL string as C16 reads it: `*` is any run
\* of characters, a pattern without `*` is a prefix
matchesWholeUrl(u, pattern) ==
  LET hasStar == \E i \in 1..Len(pattern) :
                    \E j \in 1..Len(pattern[i]) : pattern[i][j] \in {"*", "**"}
  IN globMatch(Flat(pattern) \o (IF hasStar THEN <<>> ELSE <<"*">>),
               Flat(UrlParts(u)))

\* C16: a pattern is matched against the full URL string, a pattern without
\* `*` matching exactly the URLs that start with it and `*` matching any run
\* of URL characters; with exclude = ["*tracker*"] the URL
\* https://ex.com/tracker/t is not followed.
C16_PatternSemantics ==
  probe.called =>
    /\ \A i \in 1..Len(probe.filter.exclude) :
          matchesPattern(probe.url, <<probe.filter.exclude[i]>>)
            <=> matchesWholeUrl(probe.url, probe.filter.exclude[i])
    /\ (probe.filter.exclude = <<PatTracker>> /\ probe.url = TrackerT) =>
          ~probe.result

\* the jobs whose page capture has started and not yet settled
inProgress == {w \in 1..MaxWorkers : tasks[w].pc # "idle"}

\* C17: at no time are more than `concurrency` page captures in progress;
\* with concurrency = 1 captures run one after the other.
C17_ConcurrencyBound ==
  /\ Cardinality(inProgress) <= options.concurrency
  /\ options.concurrency = 1 => \A w \in inProgress : w = 1

\* a capture is in progress in every slot of a crawler with concurrency 1
\* while further jobs wait in the queue
C17_Witness ==
  /\ options.concurrency = 1
  /\ Cardinality(inProgress) = 1
  /\ Len(queue) >= 2

\* C18: once the elapsed time has reached maxTime no page capture is
\* started: a job takes a slot only while the time is not up, and the
\* captures already in flight are the only ones that go on.
C18_NoStartAfterMaxTime ==
  [][elapsed =>
       \A w \in 1..MaxWorkers :
          tasks'[w].pc = "capture" => tasks'[w] = tasks[w]]_vars

\* ------------------------------------------------------------------------
\* normalizeUrl run alone, on a URL and on one that differs from it by an
\* explicit default port, the order of its query or one trailing slash
\* ------------------------------------------------------------------------
UrlPaths ==
  {Index, << <<"a">> >>, << <<"a">>, <<"">> >>, << <<"a">>, <<"">>, <<"">> >>,
   << <<"a">>, <<"b">> >>, << <<"">>, <<"">> >>}

UrlSearches ==
  {<<>>, << <<"a", "1">> >>,
   << <<"a", "1">>, <<"b", "2">> >>, << <<"b", "2">>, <<"a", "1">> >>,
   << <<"a", "1">>, <<"a", "2">> >>, << <<"a", "2">>, <<"a", "1">> >>}

UrlInputs ==
  {BadUrl} \cup
  {Url(pr, ExCom, po, pa, se) :
     pr \in {"http:", "https:"}, po \in {"", "80", "443", "8080"},
     pa \in UrlPaths, se \in UrlSearches}

defaultPort(u) == IF u.protocol = "http:" THEN "80" ELSE "443"

\* the inputs that differ from u in the way `how` says
Differing(u, how) ==
  CASE how = "port" ->
         {v \in UrlInputs :
            u.port = "" /\ v = [u EXCEPT !.port = defaultPort(u)]}
    [] how = "order" ->
         {v \in UrlInputs :
            /\ v = [u EXCEPT !.search = v.search]
            /\ Len(v.search) = Len(u.search)
            /\ \E f \in [1..Len(u.search) -> 1..Len(u.search)] :
                 /\ \A i, j \in 1..Len(u.search) : f[i] = f[j] => i = j
                 /\ \A i \in 1..Len(u.search) : v.search[i] = u.search[f[i]]}
    [] how = "slash" ->
         {v \in UrlInputs : v = [u EXCEPT !.pathname = @ \o << <<"">> >>]}
    [] OTHER -> {u}

InitUrl ==
  /\ Parked
  /\ \E u \in UrlInputs, how \in {"port", "order", "slash", "same"} :
       \E v \in Differing(u, how) :
          probe = [url |-> u, other |-> v, how |-> how, calls |-> 0,
                   out |-> "", outOther |-> "", again |-> ""]

\* the string normalizeUrl returns: parsed.href, or its argument
normalized(u) == IF Parses(u) THEN hrefOf(normalizeUrl(u)) ELSE hrefOf(u)

\* normalizeUrl(url) and normalizeUrl(other)
Normalize ==
  /\ probe.calls = 0
  /\ probe' = [probe EXCEPT !.calls = 1,
                            !.out = normalized(probe.url),
                            !.outOther = normalized(probe.other)]
  /\ UNCHANGED crawlerVars

\* normalizeUrl(normalizeUrl(url)): new URL(href) has the parts of the
\* URL whose href it is
NormalizeAgain ==
  /\ probe.calls = 1
  /\ probe' = [probe EXCEPT !.calls = 2,
                            !.again = normalized(normalizeUrl(normalizeUrl(probe.url)))]
  /\ UNCHANGED crawlerVars

NextUrl == Normalize \/ NormalizeAgain

SpecUrl == InitUrl /\ [][NextUrl]_vars

\* C19: normalizeUrl(normalizeUrl(u)) = normalizeUrl(u) for every
\* well-formed absolute URL, paths that end in several slashes included.
C19_Idempotent ==
  (probe.calls = 2 /\ Parses(probe.url)) => probe.again = probe.out

\* C20: URLs that differ only by an explicit default port, by the order of
\* their query parameters or by a trailing slash on a non-root path are
\* normalized to the same string; the root path keeps its slash, the query
\* parameters are kept, and an input that does not parse comes back
\* unchanged.
C20_Equivalences ==
  probe.calls >= 1 =>
    LET u == probe.url
        n == normalizeUrl(u)
    IN /\ (Parses(u) /\ (probe.how = "slash" => u.pathname # Index)) =>
            probe.out = probe.outOther
       /\ (Parses(u) /\ u.pathname = Index) => pathnameOf(n) = "/"
       /\ Parses(u) =>
            \A p \in {u.search[i] : i \in 1..Len(u.search)} :
               Cardinality({i \in 1..Len(u.search) : u.search[i] = p})
                 = Cardinality({i \in 1..Len(n.search) : n.search[i] = p})
       /\ ~Parses(u) => probe.out = hrefOf(u)

\* ------------------------------------------------------------------------
\* --stay-in-dir
\* ------------------------------------------------------------------------
\* the path begins with the directory the root URL was given as
beginsWithRootDir(u) ==
  LET dir == Front(options.url.pathname)
  IN Len(u.pathname) > Len(dir) /\ SubSeq(u.pathname, 1, Len(dir)) = dir

\* C21: with stayInDir and a root URL given as a directory (https://host/docs/),
\* no page other than the root is captured whose path does not begin with
\* that directory (/docs/).
C21_StayInDir ==
  (options.stayInDir /\ Last(options.url.pathname) = <<"">>) =>
     \A u \in Captured \ {RootUrl} : beginsWithRootDir(u)

\* ------------------------------------------------------------------------
\* isLikelyPage and isAsset, called alone
\* ------------------------------------------------------------------------
\* an extension as it is written in a URL: lower case, upper case, or with
\* a capital first letter
cased(ext, how) ==
  LET upper(c) ==
        IF \E i \in 1..26 : Char(LowerCase, i) = c
        THEN Char(UpperCase, CHOOSE i \in 1..26 : Char(LowerCase, i) = c)
        ELSE c
  IN CASE how = "upper" -> Pieces([i \in 1..Len(ext) |-> upper(Char(ext, i))])
       [] how = "first" ->
            Pieces([i \in 1..Len(ext) |->
                      IF i = 1 THEN upper(Char(ext, i)) ELSE Char(ext, i)])
       [] OTHER -> ext

\* the labels of a file name before its extension: /a.<ext>, /.<ext>,
\* /a.css.<ext>, /a.html.<ext>, /css.<ext>
ClassifyNames ==
  {<<"a">>, <<"">>, <<"a", "css">>, <<"a", "html">>, <<"css">>}

\* the extensions tried: those of the code, and html, htm, php, cssx, none
ClassifyExtensions == assetExtensions \cup {"html", "htm", "php", "cssx", ""}

\* https://ex.com/<name>.<ext>, with a trailing slash or a query or neither
classifyUrl(name, ext, how, slash, search) ==
  Url("https:", ExCom, "",
      << (IF ext = "" THEN name ELSE name \o <<cased(ext, how)>>) >>
        \o (IF slash THEN << <<"">> >> ELSE <<>>),
      search)

InitClassify ==
  /\ Parked
  /\ \/ probe = [url |-> BadUrl, ext |-> "", slash |-> FALSE, how |-> "lower",
                  calls |-> 0, page |-> FALSE, asset |-> FALSE]
     \/ \E name \in ClassifyNames, ext \in ClassifyExtensions,
           how \in {"lower", "upper", "first"}, slash \in BOOLEAN,
           search \in {<<>>, << <<"f", "a.css">> >>} :
          probe = [url |-> classifyUrl(name, ext, how, slash, search),
                   ext |-> IF ext # "" THEN ext
                           ELSE IF Len(name) >= 2 THEN Last(name) ELSE "",
                   slash |-> slash, how |-> how,
                   calls |-> 0, page |-> FALSE, asset |-> FALSE]

\* isLikelyPage(url) and isAsset(url)
Classify ==
  /\ probe.calls = 0
  /\ probe' = [probe EXCEPT !.calls = 1,
                            !.page = isLikelyPage(probe.url),
                            !.asset = isAsset(probe.url)]
  /\ UNCHANGED crawlerVars

SpecClassify == InitClassify /\ [][Classify]_vars

\* the extensions the specification enumerates
enumeratedExtensions ==
  {"css"} \cup {"js", "map"} \cup {"json", "xml"}
    \cup {"png", "jpg", "jpeg", "gif", "webp", "svg", "ico", "bmp"}
    \cup {"woff", "woff2", "ttf", "eot", "otf"}
    \cup {"mp3", "mp4", "webm", "ogg", "wav"}
    \cup {"pdf", "zip", "tar", "gz"}

\* C22: isAsset(url) = ~isLikelyPage(url), and isAsset(url) is true exactly
\* when the path ends, in any letter case, in one of the enumerated
\* extensions; a URL with no extension, with .html or .htm, or that does not
\* parse, is a page.
C22_Classification ==
  probe.calls = 1 =>
    /\ probe.asset = ~probe.page
    /\ probe.asset <=>
         /\ Parses(probe.url)
         /\ ~probe.slash
         /\ probe.ext \in enumeratedExtensions

\* https://ex.com/a.CSS was classified, as an asset
C22_Witness ==
  /\ probe.calls = 1 /\ probe.asset
  /\ probe.how = "upper" /\ probe.ext = "css" /\ ~probe.slash

\* ------------------------------------------------------------------------
\* External assets
\* ------------------------------------------------------------------------
\* the asset URLs among the <a href> links of a page
assetLinks ==
  [u \in Pages |->
     {pageLinks(u)[i] : i \in {j \in 1..Len(pageLinks(u)) : isAsset(pageLinks(u)[j])}}]

\* C23: with scope = "subdomain" and externalAssets set, once the run is
\* over every asset URL a saved page links to, also one on another host, is
\* saved, and no URL of a host other than the root's is captured as a page.
C23_ExternalAsset ==
  (options.scope = "subdomain" /\ options.externalAssets /\ Done) =>
     /\ \A u \in urlsOf(manifest[1].pages) : assetLinks[u] \subseteq savedFiles
     /\ \A u \in Captured : u.hostname = RootUrl.hostname

\* ------------------------------------------------------------------------
\* The steps of one page
\* ------------------------------------------------------------------------
\* the URLs of the resources saver.saveResources saved for page u
resourceUrls(u) ==
  LET rs == resourcesOf(options, u) IN {rs[i].url : i \in 1..Len(rs)}

\* C24: within one page the steps come in this order: the page's resources
\* are saved and entered in the URL map, then its saved CSS files are
\* rewritten, then its HTML is rewritten and saved.  So when the CSS step
\* runs every resource of the page is saved and the HTML is not, and when
\* the HTML is saved the URL map in use holds every resource of the page
\* and the page's CSS files have been rewritten.
C24_StepOrder ==
  [][\A w \in 1..MaxWorkers :
       /\ (tasks[w].pc = "css" /\ tasks'[w].pc = "html") =>
            /\ resourceUrls(tasks[w].url) \subseteq savedFiles
            /\ captures[tasks[w].url] = 1 => tasks[w].url \notin savedFiles
       /\ (tasks[w].pc = "html" /\ tasks'[w].pc = "links") =>
            /\ resourceUrls(tasks[w].url) \subseteq tasks[w].urlMap
            /\ cssFiles[tasks[w].url][options] \subseteq cssRewritten]_vars

\* the root page, which has a style sheet, went through the three steps
C24_Witness ==
  /\ manifest # <<>>
  /\ Root \in urlsOf(manifest[1].pages)
  /\ AssetCss \in cssRewritten
  /\ AssetCss \in savedFiles

\* ------------------------------------------------------------------------
\* robots.txt
\* ------------------------------------------------------------------------
\* the tasks whose _crawl waits for the fetch of the robots.txt of origin o
fetching(o) ==
  {t \in 0..MaxWorkers : tasks[t].call /\ Origin(tasks[t].callUrl) = o}

\* C25: the robots.txt of an origin is fetched at most once in a run: no
\* two fetches of it are in flight together, and none is in flight once a
\* result for the origin is memoized.
C25_RobotsFetchedOnce ==
  \A o \in Origins :
     /\ Cardinality(fetching(o)) <= 1
     /\ robotsCache[o] # "unseen" => fetching(o) = {}

\* ------------------------------------------------------------------------
\* Termination.  SpecLive is the crawler under the scheduling of the event
\* loop: a continuation that is ready runs, and a robots.txt fetch, a
\* navigation and a write settle in finite time (the fetch has a timeout),
\* so the run does not stop while a step of it is possible.
\* ------------------------------------------------------------------------
SpecLive == Spec /\ WF_vars(Next)

\* the jobs for URL u that wait in the queue or run in a slot
jobsFor(u) ==
  Cardinality({i \in 1..Len(queue) : queue[i].url = u})
    + Cardinality({w \in inProgress : tasks[w].url = u})

\* C26: start() eventually resolves; no URL is enqueued again once it is in
\* the visited set; and queue.onIdle() resolves only when the queue is empty
\* and no job runs.
C26_StartResolves ==
  /\ <>Done
  /\ [][\A u \in Pages : u \in visited => jobsFor(u)' <= jobsFor(u)]_vars
  /\ [][(tasks[0].pc = "onIdle" /\ tasks'[0].pc # "onIdle") =>
          (queue = <<>> /\ inProgress = {})]_vars

\* ------------------------------------------------------------------------
\* The end of start()
\* ------------------------------------------------------------------------
\* writeManifest and writeCache have returned
finalWritten == tasks[0].pc \in {"finally", "done"}

C28_LinksStableOffline ==
  \A pg, q \in probe.pages :
     \A i \in 1..Len(pg.refs) :
        (pg.refs[i].kind = "attr" /\ pg.refs[i].abs = q.url) =>
           /\ pg.refs[i].rewritten
           /\ resolveFrom(probe.saver.savedFiles[pg.url], pg.refs[i].value)
                = probe.saver.savedFiles[q.url]

\* ------------------------------------------------------------------------
\* One job of the crawler and the tab it drives: PageCapture.capture and
\* the part of Crawler._capturePage that works on its result.  `probe` is
\* the job: its position, the responses the tab has produced so far, and
\* this.resources, which is also result.resources (the same Map), as the
\* sequence of its keys in insertion order.
\* ------------------------------------------------------------------------
CaptureOptions ==
  {BaseOptions("ex", 0, 1),
   [BaseOptions("ex", 0, 1) EXCEPT !.mimeExclude = << <<"font", "*">> >>]}

CapturePages == {Root, normalizeUrl(PageA)}

\* _capturePage(url, remainingDepth) has emitted page:start, opened its tab
\* (context.newPage()) and called capture(url), whose first line is
\* page.on('response', ...); `events` are the calls of this.emit so far
InitCapture ==
  /\ Parked
  /\ \E o \in CaptureOptions, u \in CapturePages, d \in 0..1 :
       probe = [pc |-> "goto", options |-> o, page |-> u, delivered |-> {},
                depth |-> d, tabs |-> {"page"}, events |-> <<"page:start">>,
                resources |-> <<>>, atContent |-> {}, cursor |-> 0,
                saved |-> {}, finalUrl |-> BadUrl,
                html |-> [key |-> BadUrl, path |-> "", record |-> BadUrl]]

keysOf(resources) == {resources[i] : i \in 1..Len(resources)}

\* the handler is never removed: it runs as long as the tab is open
listening(pc) == pc # "closed"

\* a response of the tab, the i-th of the page, reaches the handler:
\* _collectResource sets this.resources[url] unless a filter drops it
collectResource(i) ==
  /\ listening(probe.pc)
  /\ i \in 1..Len(responses(probe.page)) /\ i \notin probe.delivered
  /\ LET r == responses(probe.page)[i]
     IN probe' = [probe EXCEPT
                    !.delivered = @ \cup {i},
                    !.resources = IF collects(probe.options, r)
                                       /\ r.url \notin keysOf(@)
                                  THEN Append(@, r.url) ELSE @]
  /\ UNCHANGED crawlerVars

\* goto, the waits, the scrolling and waitForLoadState('networkidle') with
\* its timeout are over: html = await this.page.content()
ReadContent ==
  /\ probe.pc = "goto"
  /\ probe' = [probe EXCEPT !.pc = "content",
                            !.atContent = keysOf(probe.resources)]
  /\ UNCHANGED crawlerVars

\* this.page.url() once the navigation is over: the server redirects
\* https://ex.com/a to https://ex.com/a/
pageUrl(u) == IF u = normalizeUrl(PageA) THEN PageA ELSE u

\* title, extractLinks, screenshot and pdf are over: capture() returns
\* {url: finalUrl, ..., resources: this.resources}
Return ==
  /\ probe.pc = "content"
  /\ probe' = [probe EXCEPT !.pc = "saving", !.finalUrl = pageUrl(probe.page)]
  /\ UNCHANGED crawlerVars

\* saver.saveResources: one turn of `for (const [url, resource] of
\* resources)`, with its awaited writes; the iterator of a Map also visits
\* the entries that were added after the loop began
SaveNext ==
  /\ probe.pc = "saving"
  /\ probe.cursor < Len(probe.resources)
  /\ probe' = [probe EXCEPT !.cursor = @ + 1,
                            !.saved = @ \cup {probe.resources[probe.cursor + 1]}]
  /\ UNCHANGED crawlerVars

\* rewriteLinks(result.html, url, ...), saver.saveHtml(url, ...) and
\* addPageToManifest({url, ...}) of a job for `url` whose capture ended at
\* `final`: the key of the URL map, the path of the file, the page record
savedAs(url, final) ==
  [key |-> url, path |-> sanitizePath(urlToPath(url, "original")),
   record |-> url]

\* page:complete emitted ahead of saver.saveHtml
emittedCompleteFirst(n, written) ==
  [i \in 1..n |-> "asset:save"] \o <<"page:complete">>
    \o (IF written THEN <<>> ELSE <<"error">>)

\* the events of _capturePage from the return of saveResources on: one
\* asset:save for each of the n saved resources, then page:complete when
\* saveHtml (and saveScreenshot, savePdf) wrote the page, else the `error`
\* of the catch block
emitted(n, written) ==
  [i \in 1..n |-> "asset:save"]
    \o (IF written THEN <<"page:complete">> ELSE <<"error">>)

\* the loop found no further entry: the asset records and asset:save,
\* getUrlMap, _rewriteCssFiles, rewriteLinks, saveHtml, the page record,
\* page:complete; when the write of the HTML throws, the catch block.  The
\* loop over the links follows
SaveEnd ==
  /\ probe.pc = "saving"
  /\ probe.cursor = Len(probe.resources)
  /\ \E written \in BOOLEAN :
       probe' = [probe EXCEPT
                   !.pc = IF written THEN "saved" ELSE "caught",
                   !.html = IF written THEN savedAs(probe.page, probe.finalUrl)
                            ELSE @,
                   !.events = @ \o emitted(Cardinality(probe.saved), written)]
  /\ UNCHANGED crawlerVars

\* page.goto throws and the tab shows no http(s) URL: capture() rethrows,
\* and _capturePage goes to its catch block
GotoThrows ==
  /\ probe.pc = "goto"
  /\ probe' = [probe EXCEPT !.pc = "caught", !.events = Append(@, "error")]
  /\ UNCHANGED crawlerVars

\* the loop over the links calls _crawl for a link whose origin has no
\* robots.txt in the cache: the fetcher opens a tab, page.goto(robotsUrl)
FetchRobots ==
  /\ probe.pc = "saved"
  /\ probe.depth > 0
  /\ probe' = [probe EXCEPT !.pc = "robots", !.tabs = @ \cup {"robots"}]
  /\ UNCHANGED crawlerVars

\* the tabs left open by the fetcher when page.goto(robotsUrl) ended with
\* `outcome`: page.close() follows page.goto and page.content() inside the
\* try block, so it is skipped when one of them throws
afterFetch(tabs, outcome) ==
  IF outcome = "throws" THEN tabs ELSE tabs \ {"robots"}

\* page.goto(robotsUrl, {timeout: 10000}) settles: an ok response, another
\* response, or a timeout or network error; the loop goes on to its end
RobotsSettles ==
  /\ probe.pc = "robots"
  /\ \E outcome \in {"ok", "not ok", "throws"} :
       probe' = [probe EXCEPT !.pc = "links",
                              !.tabs = afterFetch(@, outcome)]
  /\ UNCHANGED crawlerVars

\* finally { if (page) await page.close() }
ClosePage ==
  /\ probe.pc \in {"saved", "links", "caught"}
  /\ probe' = [probe EXCEPT !.pc = "closed", !.tabs = @ \ {"page"}]
  /\ UNCHANGED crawlerVars

NextCapture ==
  \/ \E i \in DOMAIN responses(probe.page) : collectResource(i)
  \/ ReadContent
  \/ Return
  \/ SaveNext
  \/ SaveEnd
  \/ GotoThrows
  \/ FetchRobots
  \/ RobotsSettles
  \/ ClosePage

SpecCapture == InitCapture /\ [][NextCapture]_vars

\* C29: once capture() has returned, the resource map of its result is not
\* modified, also not while saveResources goes through it; the resources
\* saved for the page are those the map held when the HTML was read.
C29_ResultFrozen ==
  /\ [][probe.pc \in {"saving", "saved", "robots", "links", "closed"} =>
          probe'.resources = probe.resources]_vars
  /\ [](probe.pc \in {"saved", "robots", "links", "closed"} =>
          probe.saved = probe.atContent)

\* C30: when the capture was redirected, the page's HTML is written to the
\* path derived from finalUrl, and the URL map entry and the page record of
\* the manifest are keyed by finalUrl.
C30_RedirectKeyed ==
  (probe.html.key # BadUrl /\ probe.finalUrl # probe.page) =>
     /\ probe.html.key = probe.finalUrl
     /\ probe.html.record = probe.finalUrl
     /\ probe.html.path = sanitizePath(urlToPath(probe.finalUrl, "original"))

\* C31: every tab is closed when the operation that opened it is over: the
\* tab of a robots.txt fetch when the fetch has settled, the tab of a page
\* capture when _capturePage has ended, whatever the outcome.
C31_TabsClosed ==
  /\ probe.pc \in {"links", "closed"} => "robots" \notin probe.tabs
  /\ probe.pc = "closed" => probe.tabs = {}

\* ------------------------------------------------------------------------
\* Completeness of the crawl
\* ------------------------------------------------------------------------
\* the run has no limit, and no page within `depth` links of the root fails
\* or is denied by the filter or by robots.txt
unhindered ==
  /\ options.maxPages = 0 /\ options.maxTime = 0
  /\ manifest # <<>> /\ manifest[1].stats.errors = 0
  /\ \A u \in within(options.depth) \cap Pages :
        /\ shouldFollow(filter, u)
        /\ ~Disallowed(u)
        /\ ~navigationFails(u) /\ ~writeFails(u)

\* C32: in a run without limits, errors and denials, every page whose
\* shortest link distance from the root is at most `depth` is captured,
\* whatever the concurrency and the interleaving of the jobs.
C32_AllWithinDepthCaptured ==
  (Done /\ unhindered) => (within(options.depth) \cap Pages) \subseteq Captured

\* the positions of the events of the given names in the job's events
positions(names) ==
  {i \in 1..Len(probe.events) : probe.events[i] \in names}

\* C33: a capture emits page:start once, before every asset:save; every
\* asset:save precedes the terminal event; and there is one terminal event,
\* page:complete or error, at the latest when the job is over.
C33_EventOrder ==
  /\ positions({"page:start"}) = {1}
  /\ Cardinality(positions({"page:complete", "error"})) <= 1
  /\ \A i \in positions({"asset:save"}) :
        \A j \in positions({"page:complete", "error"}) : i < j
  /\ probe.pc = "closed" =>
        Cardinality(positions({"page:complete", "error"})) = 1

\* a job is over that saved two resources and then its page
C33_Witness ==
  /\ probe.pc = "closed"
  /\ Cardinality(positions({"asset:save"})) = 2
  /\ Last(probe.events) = "page:complete"

\* ------------------------------------------------------------------------
\* The manifest of a run
\* ------------------------------------------------------------------------
RECURSIVE sizeSum(_)
sizeSum(records) ==
  IF records = <<>> THEN 0 ELSE Head(records).size + sizeSum(Tail(records))

isPrefix(s, t) == Len(s) <= Len(t) /\ SubSeq(t, 1, Len(s)) = s

\* C34: in a run with a fresh manifest the page and asset records only grow,
\* pagesCapt and assetsCapt count the records, totalSize is the sum of their
\* sizes, and stats.errors is the number of `error` events emitted.
C34_ManifestConsistent ==
  /\ [][(manifest # <<>> /\ ~options.useCache) =>
          /\ isPrefix(manifest[1].pages, manifest'[1].pages)
          /\ isPrefix(manifest[1].assets, manifest'[1].assets)]_vars
  /\ []((manifest # <<>> /\ ~options.useCache) =>
          LET m == manifest[1]
          IN /\ m.stats.pagesCapt = Len(m.pages)
             /\ m.stats.assetsCapt = Len(m.assets)
             /\ m.stats.totalSize = sizeSum(m.pages) + sizeSum(m.assets)
             /\ m.stats.errors = errorEvents + escaped)

\* a run with a fresh manifest has recorded two pages, an asset and an error
C34_Witness ==
  /\ manifest # <<>> /\ ~options.useCache
  /\ Len(manifest[1].pages) >= 2
  /\ Len(manifest[1].assets) >= 1
  /\ manifest[1].stats.errors >= 1

\* ------------------------------------------------------------------------
\* The entries of the resource map
\* ------------------------------------------------------------------------
\* C35: every entry of the resource map comes from a response with a status
\* in [200, 400), a content type other than text/html, a URL that is not a
\* data: URL and that no built-in exclude pattern matches; a response whose
\* body cannot be read adds no entry and raises no error.
C35_SnifferEntries ==
  /\ [](\A k \in keysOf(probe.resources) :
          \E i \in probe.delivered :
             LET r == responses(probe.page)[i]
             IN /\ r.url = k
                /\ r.status >= 200 /\ r.status < 400
                /\ r.contentType # <<"text", "html">>
                /\ r.url.protocol # "data:"
                /\ ~shouldExcludeUrl(r.url)
                /\ r.readable)
  /\ [][\A i \in DOMAIN responses(probe.page) :
          (i \notin probe.delivered /\ i \in probe'.delivered
             /\ ~responses(probe.page)[i].readable) =>
          /\ probe'.resources = probe.resources
          /\ probe'.pc = probe.pc
          /\ probe'.events = probe.events]_vars

\* every response of https://ex.com/ has reached the handler, the unreadable
\* one, the data: URL, the frame, the 404 and the source map among them, and
\* the map has entries
C35_Witness ==
  /\ probe.page = Root
  /\ probe.delivered = DOMAIN responses(Root)
  /\ \E i \in probe.delivered : ~responses(Root)[i].readable
  /\ \E i \in probe.delivered : responses(Root)[i].url.protocol = "data:"
  /\ Len(probe.resources) >= 2

\* ------------------------------------------------------------------------
\* src/src/link-extractor.js, extractLinks
\* ------------------------------------------------------------------------
\* the elements of a document: <a href>, <link href>, <script src>,
\* <img src>, <iframe src> and <link rel="canonical" href>, each with an
\* absolute URL without a fragment
ExtractTags == {"a", "link", "script", "img", "iframe", "canonical"}
Mailto == Url("mailto:", <<>>, "", << <<"me@ex", "com">> >>, <<>>)
ExtractUrls == {Root, AssetCss, AssetFrame, Mailto}
\* the documents of at most two elements
Documents ==
  {{e, f} : e \in ExtractTags \X ExtractUrls, f \in ExtractTags \X ExtractUrls}
    \cup {{}}

\* resolveAndClean: null (BadUrl here) for javascript:, mailto:, tel: and
\* data: URLs, the resolved URL otherwise
resolveAndClean(u) ==
  IF u.protocol \in {"javascript:", "mailto:", "tel:", "data:"} THEN BadUrl
  ELSE u

isHttpUrl(u) == u.protocol \in {"http:", "https:"}

\* the URLs the selectors of extractLinks put into `links` and into `assets`
extracted(doc, tags) ==
  {resolveAndClean(e[2]) : e \in {d \in doc : d[1] \in tags}}
    \cap {u \in ExtractUrls : resolveAndClean(u) # BadUrl /\ isHttpUrl(u)}

extractLinks(doc) ==
  LET links == extracted(doc, {"a", "iframe", "canonical"})
      assets == extracted(doc, {"link", "script", "img", "canonical"})
  IN [pages |-> {u \in links : isLikelyPage(u)},
      assets |-> {u \in assets \cup links : ~isLikelyPage(u)},
      all |-> links \cup assets]

InitExtract ==
  /\ Parked
  /\ \E doc \in Documents :
       probe = [document |-> doc, calls |-> 0, result |-> extractLinks({})]

Extract ==
  /\ probe.calls = 0
  /\ probe' = [probe EXCEPT !.calls = 1,
                            !.result = extractLinks(probe.document)]
  /\ UNCHANGED crawlerVars

SpecExtract == InitExtract /\ [][Extract]_vars

\* C36: the pages and the assets extractLinks returns are disjoint and their
\* union is `all`: every extracted URL is in exactly one of the two lists.
C36_Partition ==
  probe.calls = 1 =>
    /\ probe.result.pages \cap probe.result.assets = {}
    /\ probe.result.pages \cup probe.result.assets = probe.result.all

\* ------------------------------------------------------------------------
\* src/src/utils/logger.js, a Logger with a log file
\* ------------------------------------------------------------------------
\* the messages are numbered in logging order
MaxMessages == 12
FlushThreshold == 10

RemoveAt(s, i) == SubSeq(s, 1, i - 1) \o SubSeq(s, i + 1, Len(s))

\* new Logger({logFile}): logBuffer = []; `writes` are the fs.appendFile
\* calls in flight, each with the text it was given
InitLogger ==
  /\ Parked
  /\ probe = [pc |-> "logging", logged |-> 0, logBuffer |-> <<>>,
              writes |-> <<>>, file |-> <<>>, failed |-> FALSE]

\* flush() up to its await: nothing with an empty buffer, else
\* fs.appendFile(logFile, logBuffer.join(''))
flushStarts(writes, logBuffer, final) ==
  IF logBuffer = <<>> THEN writes
  ELSE Append(writes, [text |-> logBuffer, final |-> final])

\* info, success, warn, error, debug -> _writeToFile: push the line and call
\* flush(), not awaited, once the buffer holds ten lines
Log ==
  /\ probe.pc = "logging"
  /\ probe.logged < MaxMessages
  /\ LET pushed == Append(probe.logBuffer, probe.logged + 1)
     IN probe' = [probe EXCEPT
                    !.logged = @ + 1,
                    !.logBuffer = pushed,
                    !.writes = IF Len(pushed) >= FlushThreshold
                               THEN flushStarts(@, pushed, FALSE) ELSE @]
  /\ UNCHANGED crawlerVars

\* start(): await this.logger.flush(), the last call on the logger
FinalFlush ==
  /\ probe.pc = "logging"
  /\ probe' = [probe EXCEPT
                 !.pc = IF probe.logBuffer = <<>> THEN "done" ELSE "final",
                 !.writes = flushStarts(@, probe.logBuffer, TRUE)]
  /\ UNCHANGED crawlerVars

\* an fs.appendFile call settles and its flush() resumes: this.logBuffer = []
\* after a write, nothing after a failure (the catch block is empty)
AppendSettles ==
  /\ \E i \in DOMAIN probe.writes, ok \in BOOLEAN :
       LET w == probe.writes[i]
       IN probe' = [probe EXCEPT
                      !.writes = RemoveAt(@, i),
                      !.file = IF ok THEN @ \o w.text ELSE @,
                      !.logBuffer = IF ok THEN <<>> ELSE @,
                      !.failed = @ \/ ~ok,
                      !.pc = IF w.final THEN "done" ELSE @]
  /\ UNCHANGED crawlerVars

NextLogger == Log \/ FinalFlush \/ AppendSettles

SpecLogger == InitLogger /\ [][NextLogger]_vars

\* C37: once the final flush() has returned and every write has settled, none
\* of them with an error, the log file holds every logged message exactly
\* once and in logging order.
C37_LogComplete ==
  (probe.pc = "done" /\ probe.writes = <<>> /\ ~probe.failed) =>
    probe.file = [i \in 1..probe.logged |-> i]

\* ------------------------------------------------------------------------
\* src/src/cli.js, capture and continueCapture
\* ------------------------------------------------------------------------
\* options[key], or `missing` where the object has no such key
field(o, key, missing) == IF key \in DOMAIN o THEN o[key] ELSE missing

\* the options bag capture(url, options) hands to new Crawler: parseInt of a
\* depth that is a number or a decimal string, include || [], exclude || []
crawlerOptions(o) ==
  [depth |-> field(o, "depth", Undefined),
   scope |-> field(o, "scope", "undefined"),
   stayInDir |-> field(o, "stayInDir", FALSE),
   externalAssets |-> field(o, "externalAssets", FALSE),
   include |-> field(o, "include", <<>>),
   exclude |-> field(o, "exclude", <<>>),
   useCache |-> field(o, "useCache", FALSE)]

\* manifest.options as createManifest stores it; JSON.stringify and
\* JSON.parse keep numbers, strings, booleans and arrays of strings
manifestOptions(o) ==
  [depth |-> o.depth, scope |-> o.scope, stayInDir |-> o.stayInDir,
   externalAssets |-> o.externalAssets,
   filters |-> [include |-> o.include, exclude |-> o.exclude]]

\* the options of the `continue` command: --output and --verbose
ContinueFlags == {[output |-> "./site"], [output |-> "./site", verbose |-> TRUE]}

\* {...manifest.options, ...options, useCache: true}: later keys win
continueOptions(stored, flags) == [useCache |-> TRUE] @@ flags @@ stored

CommandLines ==
  {[depth |-> d, scope |-> sc, stayInDir |-> sd, externalAssets |-> ea,
    include |-> inc, exclude |-> exc] :
     d \in 0..MaxDepth, sc \in {"domain", "subdomain"}, sd \in BOOLEAN,
     ea \in BOOLEAN, inc \in Includes, exc \in Excludes}

InitContinue ==
  /\ Parked
  /\ \E o \in CommandLines :
       probe = [pc |-> "new", original |-> crawlerOptions(o),
                stored |-> <<>>, resumed |-> <<>>]

\* the first run: start() builds the manifest with createManifest(url,
\* this.options) and writeManifest stores it
WriteOptions ==
  /\ probe.pc = "new"
  /\ probe' = [probe EXCEPT !.pc = "written",
                            !.stored = manifestOptions(probe.original)]
  /\ UNCHANGED crawlerVars

\* smippo continue: readManifest, then capture(manifest.rootUrl, {...})
ContinueCapture ==
  /\ probe.pc = "written"
  /\ \E flags \in ContinueFlags :
       probe' = [probe EXCEPT
                   !.pc = "continued",
                   !.resumed = crawlerOptions(continueOptions(probe.stored,
                                                              flags))]
  /\ UNCHANGED crawlerVars

NextContinue == WriteOptions \/ ContinueCapture

SpecContinue == InitContinue /\ [][NextContinue]_vars

\* C38: the resumed run is given the depth, scope, stayInDir, externalAssets,
\* include patterns and exclude patterns of the original run.
C38_SameOptions ==
  probe.pc = "continued" =>
    /\ probe.resumed.depth = probe.original.depth
    /\ probe.resumed.scope = probe.original.scope
    /\ probe.resumed.stayInDir = probe.original.stayInDir
    /\ probe.resumed.externalAssets = probe.original.externalAssets
    /\ probe.resumed.include = probe.original.include
    /\ probe.resumed.exclude = probe.original.exclude

\* ------------------------------------------------------------------------
\* src/src/server.js, the request handler of createServer
\* ------------------------------------------------------------------------
\* paths are lists of segments below "/"; rootDir = path.resolve(directory)
rootDir == <<"srv", "site">>

\* the files on the disk of the host
DiskFiles ==
  {<<"srv", "site", "index.html">>, <<"srv", "site", "a.html">>,
   <<"srv", "site", "docs", "a.html">>,
   <<"srv", "site-old", "secret.txt">>, <<"etc", "passwd">>}

isFile(p) == p \in DiskFiles
isDirectory(p) ==
  \E f \in DiskFiles : Len(f) > Len(p) /\ SubSeq(f, 1, Len(p)) = p

\* the segments of a request URL, at most MaxSegments of them
RequestSegments ==
  {"..", "%2e%2e", "a", "docs", "site-old", "secret.txt", "etc", "passwd"}
MaxSegments == 3
Requests ==
  UNION {[1..n -> RequestSegments] : n \in 0..MaxSegments}

\* decodeURIComponent on a segment
decodeURIComponent(seg) == IF seg = "%2e%2e" THEN ".." ELSE seg

\* path.join(rootDir, urlPath): `..` leaves a directory, never above "/"
RECURSIVE pathJoin(_, _)
pathJoin(dir, segs) ==
  IF segs = <<>> THEN dir
  ELSE IF Head(segs) = ".."
       THEN pathJoin(IF dir = <<>> THEN dir ELSE Front(dir), Tail(segs))
       ELSE pathJoin(Append(dir, Head(segs)), Tail(segs))

pathString(p) == "/" \o Join(p, "/")

\* is p the directory `dir` or a path below it
inside(dir, p) == Len(p) >= Len(dir) /\ SubSeq(p, 1, Len(dir)) = dir

\* filePath + '.html'
withHtml(p) ==
  IF p = <<>> THEN <<".html">> ELSE Append(Front(p), Last(p) \o ".html")

Answer(status, read) == [status |-> status, read |-> read]
Nothing == <<"">>

\* the handler: the status it answers with and the file or directory it
\* reads, Nothing when it reads none
handle(request) ==
  LET urlPath == [i \in 1..Len(request) |-> decodeURIComponent(request[i])]
      filePath == pathJoin(rootDir, urlPath)
      indexPath == Append(filePath, "index.html")
  IN IF ~StartsWith(pathString(filePath), pathString(rootDir))
     THEN Answer(403, Nothing)
     ELSE IF isDirectory(filePath)
          THEN IF isFile(indexPath) THEN Answer(200, indexPath)
               ELSE IF isFile(withHtml(filePath))
                    THEN Answer(200, withHtml(filePath))
                    ELSE Answer(200, filePath)
     ELSE IF isFile(filePath) THEN Answer(200, filePath)
     ELSE IF isFile(withHtml(filePath)) THEN Answer(200, withHtml(filePath))
     ELSE Answer(404, Nothing)

InitServe ==
  /\ Parked
  /\ \E request \in Requests :
       probe = [request |-> request, answered |-> FALSE,
                answer |-> Answer(0, Nothing)]

Handle ==
  /\ ~probe.answered
  /\ probe' = [probe EXCEPT !.answered = TRUE,
                            !.answer = handle(probe.request)]
  /\ UNCHANGED crawlerVars

SpecServe == InitServe /\ [][Handle]_vars

\* C39: the server reads no file or directory outside the served root; a
\* request for a path outside it is answered with 403 or 404.
C39_StaysInRoot ==
  probe.answered =>
    /\ probe.answer.read # Nothing => inside(rootDir, probe.answer.read)
    /\ ~inside(rootDir, pathJoin(rootDir,
           [i \in 1..Len(probe.request) |->
              decodeURIComponent(probe.request[i])])) =>
         probe.answer.status \in {403, 404}

====
